---- MODULE Spec2Model ----
(***************************************************************************)
(* The three-service pipeline: service1 (HTTP ingress, /send-message),     *)
(* service2 (consumer of service-queue-step1, producer of                  *)
(* service-queue-step2) and service3 (terminal consumer of                 *)
(* service-queue-step2).                                                   *)
(*                                                                         *)
(* Time is counted in milliseconds.  A string that holds a timestamp is a  *)
(* record [kind, t]: kind "empty" is the empty string, kind "bad" is text  *)
(* time.Parse rejects, kind "rfc3339" is the RFC3339Nano text of instant t.*)
(* A message body is JSON text: [valid, obj] where obj maps the keys that  *)
(* are present in the object to their values.                              *)
(***************************************************************************)
EXTENDS Integers, Sequences, FiniteSets, Bags, TLC

VARIABLES
    queue1,     \* service-queue-step1: bag of messages
    queue2,     \* service-queue-step2: bag of messages
    metrics,    \* statsd: number of Incr calls per <<service, name>>
    reqs,       \* the POST /send-message requests handled so far, with their answers
    last,       \* the handler run that returned in the latest step (NoRun if none did): its input, its calls, its result
    e2e,        \* per request: number of end-to-end duration samples service3 emitted
    now,        \* the wall clock
    faults,     \* number of times a transport or library call has failed
    running,    \* the services whose consumer loop is running
    inflight,   \* per service: the handler invocations that have begun and not returned
    issued,     \* how many uuids and how many trace ids have been generated
    homes,      \* number of requests to the health endpoints served
    slow,       \* number of handlers that took longer than the sleep they asked for
    refused,    \* number of requests to /send-message the method check has turned away
    backoff     \* the instant consumeFromStep1 began to pause after a failed receive, -1 when it is not pausing

vars == <<queue1, queue2, metrics, reqs, last, e2e, now, faults, running, inflight,
          issued, homes, slow, refused, backoff>>

----------------------------------------------------------------------------
(* Bounds of the model *)

MaxRequests == 1
MaxFaults == 1
MaxInjected == 1
MaxHandlers == 2
MaxHome == 1
MaxSlow == 1

(* Program constants, in milliseconds *)

Step1Sleep == 20
Step2Sleep == 30
Step3Sleep == 40
Under50 == 50
Under60 == 60
Under300 == 300
Under1s == 1000

(* Inputs *)

Methods == {"POST", "GET"}
HeaderCids == {"", "cid-a"}
InjectHeaders == {"true", ""}

\* the values of uuid.New(), in the order of the calls
UuidNames == <<"uuid-1", "uuid-2", "uuid-3", "uuid-4", "uuid-5", "uuid-6">>
Uuids == {UuidNames[i] : i \in DOMAIN UuidNames}

\* the trace ids of the root spans, in the order they are started, and the trace
\* of a producer outside the pipeline
TraceNames == <<"trace-1", "trace-2", "trace-3", "trace-4", "trace-5">>
ExternalTrace == "trace-x"
TraceIds == {TraceNames[i] : i \in DOMAIN TraceNames} \cup {ExternalTrace}

----------------------------------------------------------------------------
(* Timestamps: time.Format(time.RFC3339Nano) and time.Parse *)

EmptyTs == [kind |-> "empty", t |-> 0]
BadTs == [kind |-> "bad", t |-> 0]

Format(t) == [kind |-> "rfc3339", t |-> t]

Parse(s) == [ok |-> s.kind = "rfc3339", t |-> s.t]

----------------------------------------------------------------------------
(* PipelineMessage and its JSON encoding *)

PipelineMessage(cid, data, start, s1, s2, step, err) ==
    [correlation_id |-> cid, data |-> data, start_time |-> start,
     step1_complete |-> s1, step2_complete |-> s2, current_step |-> step,
     error_type |-> err]

AlwaysKeys == {"correlation_id", "data", "start_time", "current_step"}

\* json.Marshal: the omitempty fields are left out when they hold the empty string
MarshalKeys(m) ==
    AlwaysKeys
      \cup (IF m.step1_complete # EmptyTs THEN {"step1_complete"} ELSE {})
      \cup (IF m.step2_complete # EmptyTs THEN {"step2_complete"} ELSE {})
      \cup (IF m.error_type # "" THEN {"error_type"} ELSE {})

Marshal(m) == [valid |-> TRUE, obj |-> [k \in MarshalKeys(m) |-> m[k]]]

Garbage == [valid |-> FALSE, obj |-> [k \in {} |-> ""]]

Field(obj, k, zero) == IF k \in DOMAIN obj THEN obj[k] ELSE zero

\* json.Unmarshal into a zero PipelineMessage: absent keys keep the zero value
Unmarshal(body) ==
    [ok |-> body.valid,
     message |->
        PipelineMessage(Field(body.obj, "correlation_id", ""),
                        Field(body.obj, "data", <<>>),
                        Field(body.obj, "start_time", EmptyTs),
                        Field(body.obj, "step1_complete", EmptyTs),
                        Field(body.obj, "step2_complete", EmptyTs),
                        Field(body.obj, "current_step", 0),
                        Field(body.obj, "error_type", ""))]

----------------------------------------------------------------------------
(* The calls a handler makes on its collaborators, in program order *)

Incr(svc, name, tag) == [op |-> "incr", svc |-> svc, name |-> name, tag |-> tag, val |-> 1]
Timing(svc, name, d) == [op |-> "timing", svc |-> svc, name |-> name, tag |-> "", val |-> d]
Log(svc, level, text) == [op |-> "log", svc |-> svc, name |-> text, tag |-> level, val |-> 0]
SendMessage(svc, queue) == [op |-> "send", svc |-> svc, name |-> queue, tag |-> "", val |-> 0]
DeleteMessage(svc, queue) == [op |-> "delete", svc |-> svc, name |-> queue, tag |-> "", val |-> 0]
Sleep(svc, d) == [op |-> "sleep", svc |-> svc, name |-> "time.Sleep", tag |-> "", val |-> d]

When(cond, ops) == IF cond THEN ops ELSE <<>>

Range(seq) == {seq[i] : i \in DOMAIN seq}

Has(ops, op, name) == \E i \in DOMAIN ops : ops[i].op = op /\ ops[i].name = name

Times(ops, op, name) == Cardinality({i \in DOMAIN ops : ops[i].op = op /\ ops[i].name = name})

MetricKeys(ops) == {<<o.svc, o.name>> : o \in {x \in Range(ops) : x.op = "incr"}}

\* statsd counters after the Incr calls of ops
Record(m, ops) ==
    [k \in DOMAIN m \cup MetricKeys(ops) |->
        (IF k \in DOMAIN m THEN m[k] ELSE 0)
        + Cardinality({i \in DOMAIN ops : ops[i].op = "incr" /\ <<ops[i].svc, ops[i].name>> = k})]

Counter(svc, name) == IF <<svc, name>> \in DOMAIN metrics THEN metrics[<<svc, name>>] ELSE 0

----------------------------------------------------------------------------
(* Trace carrier: tracer.Inject / tracer.Extract over a TextMapCarrier *)

EmptyCarrier == [k \in {} |-> ""]

Inject(traceId, injectOk) ==
    IF injectOk THEN [k \in {"x-datadog-trace-id"} |-> traceId] ELSE EmptyCarrier

\* the carrier is rebuilt from every string attribute of the message
Extract(carrier) ==
    IF "x-datadog-trace-id" \in DOMAIN carrier /\ carrier["x-datadog-trace-id"] \in TraceIds
    THEN [ok |-> TRUE, trace |-> carrier["x-datadog-trace-id"]]
    ELSE [ok |-> FALSE, trace |-> ""]

\* msgAttrs: the correlation-id entry, then every carrier entry written over it
MsgAttrs(correlationID, carrier) ==
    [k \in {"correlation-id"} \cup DOMAIN carrier |->
        IF k \in DOMAIN carrier THEN carrier[k] ELSE correlationID]

\* A queue message.  req and from are history: the request that created the
\* work item (0: none) and the producer that sent this message.
Msg(body, attrs, req, from) == [body |-> body, attrs |-> attrs, req |-> req, from |-> from]

----------------------------------------------------------------------------
(* service1: sendMessageHandler and sendToService2 *)

\* correlationID := header / message value, or uuid.New() when that is empty
CorrelationIDOrNew(given, uuid) == IF given = "" THEN uuid ELSE given

\* mutant: the two stamps of service1 are written the other way round
Step1MessageSwapped(correlationID, injectError, start, done) ==
    PipelineMessage(correlationID, <<"Initial data from service1">>, Format(done),
                    Format(start), EmptyTs, 1,
                    IF injectError THEN "invalid_data" ELSE "")

\* mutant: an item marked invalid_data gets no step1_complete
Step1MessageUnstampedOnError(correlationID, injectError, start, done) ==
    PipelineMessage(correlationID, <<"Initial data from service1">>, Format(start),
                    IF injectError THEN EmptyTs ELSE Format(done), EmptyTs, 1,
                    IF injectError THEN "invalid_data" ELSE "")

Step1Message(correlationID, injectError, start, done) ==
    PipelineMessage(correlationID, <<"Initial data from service1">>, Format(start),
                    Format(done), EmptyTs, 1,
                    IF injectError THEN "invalid_data" ELSE "")

Step1Metrics(injectError, step1Duration) ==
    When(injectError,
         <<Incr("service1", "business.pipeline.errors.step1", ""),
           Log("service1", "warn", "Error injection activated - message marked as invalid_data")>>)
    \o <<Sleep("service1", Step1Sleep)>>
    \o <<Incr("service1", "sli.requests.total", "")>>
    \o (IF ~injectError
        THEN <<Incr("service1", "sli.requests.success", "")>>
        ELSE <<Incr("service1", "sli.requests.error", "error_type:invalid_data")>>)
    \o When(step1Duration <= Under50, <<Incr("service1", "sli.latency.under_50ms", "")>>)
    \o <<Timing("service1", "sli.response_time", step1Duration),
         Timing("service1", "business.pipeline.step1.duration", step1Duration),
         Incr("service1", "business.pipeline.messages.step1", "")>>

\* mutant: a failed tracer.Inject is returned as the error of the send
sendToService2AbortsOnInject(message, correlationID, traceId, req, injectOk, marshalOk, sendOk) ==
    LET carrier == Inject(traceId, injectOk)
        injectOps == When(~injectOk,
                        <<Log("service1", "warn", "Failed to inject trace context, continuing without tracing")>>)
        msgAttrs == MsgAttrs(correlationID, carrier)
    IN  IF ~injectOk \/ ~marshalOk
        THEN [err |-> "marshal", ops |-> injectOps, sent |-> {}]
        ELSE IF ~sendOk
        THEN [err |-> "send",
              ops |-> injectOps \o <<SendMessage("service1", "service-queue-step1")>>,
              sent |-> {}]
        ELSE [err |-> "",
              ops |-> injectOps \o <<SendMessage("service1", "service-queue-step1")>>,
              sent |-> {Msg(Marshal(message), msgAttrs, req, "service1")}]

\* returns the error ("" for nil), the calls made and the message placed on the queue
sendToService2(message, correlationID, traceId, req, injectOk, marshalOk, sendOk) ==
    LET carrier == Inject(traceId, injectOk)
        injectOps == When(~injectOk,
                        <<Log("service1", "warn", "Failed to inject trace context, continuing without tracing")>>)
        msgAttrs == MsgAttrs(correlationID, carrier)
    IN  IF ~marshalOk
        THEN [err |-> "marshal", ops |-> injectOps, sent |-> {}]
        ELSE IF ~sendOk
        THEN [err |-> "send",
              ops |-> injectOps \o <<SendMessage("service1", "service-queue-step1")>>,
              sent |-> {}]
        ELSE [err |-> "",
              ops |-> injectOps \o <<SendMessage("service1", "service-queue-step1")>>,
              sent |-> {Msg(Marshal(message), msgAttrs, req, "service1")}]

Step1SendFailure ==
    <<Log("service1", "error", "Failed to send message to Service2"),
      Incr("service1", "sli.requests.total", ""),
      Incr("service1", "sli.requests.error", "error_type:sqs_send_failure"),
      Incr("service1", "business.pipeline.errors.sqs.send", "")>>

\* mutant: the handler serves every method
MethodAllowedAny(method) == TRUE

MethodAllowed(method) == method = "POST"

\* mutant: a request that carried the inject-error flag is answered with an error
Step1ResultErrorOnInject(outcome, status, assigned, correlationID, duration, inject, ops, sent, elapsed, failed) ==
    [svc |-> "service1", outcome |-> outcome, assigned |-> assigned,
     response |-> [status |-> IF inject THEN 500 ELSE status,
                   correlation_id |-> correlationID, duration_ms |-> duration],
     inject |-> inject, ops |-> ops, sent |-> sent, elapsed |-> elapsed, failed |-> failed]

\* what the handler did: the response written, the calls made, the message enqueued
Step1Result(outcome, status, assigned, correlationID, duration, inject, ops, sent, elapsed, failed) ==
    [svc |-> "service1", outcome |-> outcome, assigned |-> assigned,
     response |-> [status |-> status, correlation_id |-> correlationID, duration_ms |-> duration],
     inject |-> inject, ops |-> ops, sent |-> sent, elapsed |-> elapsed, failed |-> failed]

\* in: [method, cid, inject, uuid, trace, elapsed, injectOk, marshalOk, sendOk]
sendMessageHandler(in, req, t) ==
    [method |-> in.method] @@
    IF ~MethodAllowed(in.method)
    THEN Step1Result("rejected", 405, "", "", 0, FALSE, <<>>, {}, 0, FALSE)
    ELSE
    LET correlationID == CorrelationIDOrNew(in.cid, in.uuid)
        injectError == in.inject = "true"
        step1Duration == in.elapsed
        message == Step1Message(correlationID, injectError, t, t + in.elapsed)
        s == sendToService2(message, correlationID, in.trace, req,
                            in.injectOk, in.marshalOk, in.sendOk)
        ops == Step1Metrics(injectError, step1Duration) \o s.ops
    IN  IF s.err # ""
        THEN Step1Result("failed", 500, correlationID, "", 0, injectError, ops \o Step1SendFailure, {},
                         in.elapsed, TRUE)
        ELSE Step1Result("accepted", 200, correlationID, correlationID, step1Duration, injectError,
                         ops \o <<Log("service1", "info", "Step1 completed, message sent to Service2")>>,
                         s.sent, in.elapsed, ~in.injectOk)

----------------------------------------------------------------------------
(* service2: processStep2Message *)

\* carrier[key] = *attr.StringValue for every attribute of the message
CarrierOf(msg) == msg.attrs

\* mutant: no span is started when the context cannot be extracted
ReceiveSpanChildOnly(msg, freshTrace) ==
    LET x == Extract(CarrierOf(msg))
    IN  IF x.ok THEN [child |-> TRUE, trace |-> x.trace]
        ELSE [child |-> FALSE, trace |-> ""]

\* the span a consumer starts: a child of the extracted context, or a new root
ReceiveSpan(msg, freshTrace) ==
    LET x == Extract(CarrierOf(msg))
    IN  IF x.ok THEN [child |-> TRUE, trace |-> x.trace]
        ELSE [child |-> FALSE, trace |-> freshTrace]

ExtractOps(svc, msg) ==
    When(~Extract(CarrierOf(msg)).ok,
         <<Log(svc, "debug", "Failed to extract trace context, starting new span")>>)

DeleteOps(svc, queue, deleteOk, text) ==
    <<DeleteMessage(svc, queue)>> \o When(~deleteOk, <<Log(svc, "error", text)>>)

Step2Malformed(deleteOk) ==
    <<Log("service2", "error", "Failed to unmarshal pipeline message, skipping"),
      Incr("service2", "business.pipeline.errors.json.unmarshal", "")>>
    \o DeleteOps("service2", "service-queue-step1", deleteOk, "Failed to delete malformed message")

Step1ToStep2(message, step2Start) ==
    When(Parse(message.step1_complete).ok,
         <<Timing("service2", "business.pipeline.step1_to_step2.duration",
                  step2Start - Parse(message.step1_complete).t)>>)

\* mutant: the inherited error is never detected
ProcessingFailedNever(message) == FALSE

\* processingFailed := message.ErrorType == "invalid_data"
ProcessingFailed(message) == message.error_type = "invalid_data"

\* mutant: the short-circuit is not counted in the processing SLI
Step2ShortCircuitNoSli(deleteOk) ==
    <<Incr("service2", "business.pipeline.errors.step2", "type:inherited"),
      Log("service2", "error", "Step2 processing failed - inherited error from step1, message will not be forwarded to step3")>>
    \o DeleteOps("service2", "service-queue-step1", deleteOk, "Failed to delete failed message from step1 queue")
    \o <<Incr("service2", "business.pipeline.failed.step2", "")>>

Step2ShortCircuit(deleteOk) ==
    <<Incr("service2", "business.pipeline.errors.step2", "type:inherited"),
      Log("service2", "error", "Step2 processing failed - inherited error from step1, message will not be forwarded to step3")>>
    \o DeleteOps("service2", "service-queue-step1", deleteOk, "Failed to delete failed message from step1 queue")
    \o <<Incr("service2", "sli.processing.total", ""),
         Incr("service2", "sli.processing.error", "error_type:inherited_error"),
         Incr("service2", "business.pipeline.failed.step2", "")>>

\* mutant: the updated message loses its correlation id
UpdateForStep3NoId(message, done) ==
    [message EXCEPT !.data = <<"Processed by service2: ">> \o message.data,
                    !.step2_complete = Format(done),
                    !.current_step = 2,
                    !.correlation_id = ""]

\* mutant: the forwarded item is marked clean
UpdateForStep3ClearsError(message, done) ==
    [message EXCEPT !.data = <<"Processed by service2: ">> \o message.data,
                    !.step2_complete = Format(done),
                    !.current_step = 2,
                    !.error_type = ""]

\* mutant: service2 restarts the pipeline clock of the item
UpdateForStep3Restart(message, done) ==
    [message EXCEPT !.data = <<"Processed by service2: ">> \o message.data,
                    !.start_time = Format(done),
                    !.step2_complete = Format(done),
                    !.current_step = 2]

\* mutant: data is forwarded as it was received
UpdateForStep3NoPrefix(message, done) ==
    [message EXCEPT !.step2_complete = Format(done),
                    !.current_step = 2]

\* Update message for step3
UpdateForStep3(message, done) ==
    [message EXCEPT !.data = <<"Processed by service2: ">> \o message.data,
                    !.step2_complete = Format(done),
                    !.current_step = 2]

Step2Metrics(step2Duration) ==
    <<Incr("service2", "sli.processing.total", ""),
      Incr("service2", "sli.processing.success", "")>>
    \o When(step2Duration <= Under50, <<Incr("service2", "sli.latency.under_50ms", "")>>)
    \o <<Timing("service2", "sli.processing_time", step2Duration),
         Timing("service2", "business.pipeline.step2.duration", step2Duration),
         Incr("service2", "business.pipeline.messages.step2", ""),
         Timing("service2", "sli.pipeline.duration", step2Duration)>>

Step2MarshalFailure ==
    <<Log("service2", "error", "Failed to marshal message for step3")>>

\* mutant: the failed send counts an error and no second total
Step2SendFailureOnce ==
    <<Log("service2", "error", "Failed to send message to step3 queue"),
      Incr("service2", "sli.processing.error", "error_type:sqs_send_failure"),
      Incr("service2", "business.pipeline.errors.sqs.send", "")>>

Step2SendFailure ==
    <<Log("service2", "error", "Failed to send message to step3 queue"),
      Incr("service2", "sli.processing.total", ""),
      Incr("service2", "sli.processing.error", "error_type:sqs_send_failure"),
      Incr("service2", "business.pipeline.errors.sqs.send", "")>>

\* the message SendMessage places on service-queue-step2
Step2Output(message, correlationID, span, msg, injectOk) ==
    Msg(Marshal(message), MsgAttrs(correlationID, Inject(span.trace, injectOk)),
        msg.req, "service2")

\* mutant: the input message is deleted although the send failed
Step2DeletesAfterMarshal(marshalOk, sendOk) == marshalOk

\* whether the forwarding path deletes the input message: after SendMessage succeeded
Step2DeletesAfterSend(marshalOk, sendOk) == marshalOk /\ sendOk

Step2Result(outcome, msg, message, correlationID, span, ops, sent, deleted, elapsed, failed) ==
    [svc |-> "service2", outcome |-> outcome, msg |-> msg, message |-> message,
     correlationID |-> correlationID, span |-> span, ops |-> ops, sent |-> sent,
     deleted |-> deleted, elapsed |-> elapsed, failed |-> failed]

NoSpan == [child |-> FALSE, trace |-> ""]

\* in: [uuid, trace, elapsed, injectOk, marshalOk, sendOk, deleteOk]
processStep2Message(msg, in, t) ==
    LET u == Unmarshal(msg.body)
        message == u.message
        correlationID == CorrelationIDOrNew(message.correlation_id, in.uuid)
        span == ReceiveSpan(msg, in.trace)
        pre == ExtractOps("service2", msg) \o Step1ToStep2(message, t)
        updated == UpdateForStep3(message, t + in.elapsed)
        step2Duration == in.elapsed
        work == pre \o <<Sleep("service2", Step2Sleep)>> \o Step2Metrics(step2Duration)
                    \o When(~in.injectOk,
                            <<Log("service2", "debug", "Failed to inject trace context, continuing without tracing")>>)
    IN  IF ~u.ok
        THEN Step2Result("malformed", msg, message, "", NoSpan, Step2Malformed(in.deleteOk),
                         {}, in.deleteOk, 0, ~in.deleteOk)
        ELSE IF ProcessingFailed(message)
        THEN Step2Result("short_circuit", msg, message, correlationID, span,
                         pre \o Step2ShortCircuit(in.deleteOk), {}, in.deleteOk, 0,
                         ~in.deleteOk)
        ELSE IF ~in.marshalOk
        THEN Step2Result("marshal_failed", msg, updated, correlationID, span,
                         work \o Step2MarshalFailure, {},
                         Step2DeletesAfterSend(in.marshalOk, in.sendOk) /\ in.deleteOk,
                         in.elapsed, TRUE)
        ELSE IF ~in.sendOk
        THEN Step2Result("send_failed", msg, updated, correlationID, span,
                         work \o <<SendMessage("service2", "service-queue-step2")>>
                              \o Step2SendFailure, {},
                         Step2DeletesAfterSend(in.marshalOk, in.sendOk) /\ in.deleteOk,
                         in.elapsed, TRUE)
        ELSE Step2Result("forwarded", msg, updated, correlationID, span,
                         work \o <<SendMessage("service2", "service-queue-step2")>>
                              \o DeleteOps("service2", "service-queue-step1", in.deleteOk,
                                           "Failed to delete processed message from step1 queue")
                              \o <<Log("service2", "info", "Step2 completed, message sent to step3")>>,
                         {Step2Output(updated, correlationID, span, msg, in.injectOk)},
                         Step2DeletesAfterSend(in.marshalOk, in.sendOk) /\ in.deleteOk,
                         in.elapsed, ~in.injectOk \/ ~in.deleteOk)

----------------------------------------------------------------------------
(* service3: processStep3Message *)

Step3Malformed ==
    <<Log("service3", "error", "Failed to unmarshal pipeline message, skipping")>>

Step2ToStep3(message, step3Start) ==
    When(Parse(message.step2_complete).ok,
         <<Timing("service3", "business.pipeline.step2_to_step3.duration",
                  step3Start - Parse(message.step2_complete).t)>>)

\* Calculate end-to-end pipeline duration and the step durations from timestamps
Step3Calculated(message, end) ==
    LET start == Parse(message.start_time)
        s1 == Parse(message.step1_complete)
        s2 == Parse(message.step2_complete)
    IN  When(start.ok,
             <<Timing("service3", "business.pipeline.end_to_end.duration", end - start.t)>>
             \o When(s1.ok,
                     <<Timing("service3", "business.pipeline.step1.calculated_duration",
                              s1.t - start.t)>>
                     \o When(s2.ok,
                             <<Timing("service3", "business.pipeline.step2.calculated_duration",
                                      s2.t - s1.t)>>)))

\* mutant: the bucket excludes a duration equal to the threshold
Step3SliStrict(step3Duration) ==
    <<Incr("service3", "sli.processing.total", ""),
      Incr("service3", "sli.processing.success", "")>>
    \o When(step3Duration < Under60, <<Incr("service3", "sli.latency.under_60ms", "")>>)
    \o <<Timing("service3", "sli.processing_time", step3Duration)>>

Step3Sli(step3Duration) ==
    <<Incr("service3", "sli.processing.total", ""),
      Incr("service3", "sli.processing.success", "")>>
    \o When(step3Duration <= Under60, <<Incr("service3", "sli.latency.under_60ms", "")>>)
    \o <<Timing("service3", "sli.processing_time", step3Duration)>>

\* mutant: the success counter is kept for items that ended within a second
Step3EndToEndSuccessUnder1s(message, end) ==
    LET start == Parse(message.start_time)
        endToEndDuration == end - start.t
    IN  When(start.ok,
             <<Incr("pipeline", "sli.pipeline.total", "")>>
             \o When(endToEndDuration <= Under300,
                     <<Incr("pipeline", "sli.pipeline.under_300ms", "")>>)
             \o When(endToEndDuration <= Under1s,
                     <<Incr("pipeline", "sli.pipeline.success", ""),
                       Incr("pipeline", "sli.pipeline.under_1s", "")>>)
             \o <<Timing("pipeline", "sli.pipeline.duration", endToEndDuration)>>)

\* End-to-end SLI metrics
Step3EndToEnd(message, end) ==
    LET start == Parse(message.start_time)
        endToEndDuration == end - start.t
    IN  When(start.ok,
             <<Incr("pipeline", "sli.pipeline.total", ""),
               Incr("pipeline", "sli.pipeline.success", "")>>
             \o When(endToEndDuration <= Under300,
                     <<Incr("pipeline", "sli.pipeline.under_300ms", "")>>)
             \o When(endToEndDuration <= Under1s,
                     <<Incr("pipeline", "sli.pipeline.under_1s", "")>>)
             \o <<Timing("pipeline", "sli.pipeline.duration", endToEndDuration)>>)

Step3Business(step3Duration) ==
    <<Timing("service3", "business.pipeline.step3.duration", step3Duration),
      Incr("service3", "business.pipeline.messages.step3", ""),
      Incr("service3", "business.pipeline.completed", "")>>

\* mutant: the message is not deleted
Step3TerminateNoDelete ==
    <<Log("service3", "info", "Pipeline completed - Step3 finished")>>

\* Delete message from queue, then the completion log
Step3Terminate ==
    <<DeleteMessage("service3", "service-queue-step2"),
      Log("service3", "info", "Pipeline completed - Step3 finished")>>

Step3Result(outcome, msg, message, correlationID, span, ops, deleted, elapsed, failed) ==
    [svc |-> "service3", outcome |-> outcome, msg |-> msg, message |-> message,
     correlationID |-> correlationID, span |-> span, ops |-> ops, deleted |-> deleted,
     elapsed |-> elapsed, failed |-> failed]

\* in: [uuid, trace, elapsed, deleteOk]
processStep3Message(msg, in, t) ==
    LET u == Unmarshal(msg.body)
        message == u.message
        correlationID == CorrelationIDOrNew(message.correlation_id, in.uuid)
        span == ReceiveSpan(msg, in.trace)
        step3Duration == in.elapsed
        end == t + in.elapsed
    IN  IF ~u.ok
        THEN Step3Result("malformed", msg, message, "", NoSpan, Step3Malformed,
                         FALSE, 0, FALSE)
        ELSE Step3Result("terminated", msg, message, correlationID, span,
                         ExtractOps("service3", msg)
                           \o Step2ToStep3(message, t)
                           \o <<Sleep("service3", Step3Sleep)>>
                           \o Step3Calculated(message, end)
                           \o Step3Sli(step3Duration)
                           \o Step3EndToEnd(message, end)
                           \o Step3Business(step3Duration)
                           \o Step3Terminate,
                         in.deleteOk, in.elapsed, ~in.deleteOk)

----------------------------------------------------------------------------
(* Inputs of the handlers *)

\* time.Sleep(d) returns after at least d and time.Since measures the handler
\* so far: a handler measures the sleep or more, below and above each threshold.
\* The long durations of step 3 bring the end-to-end duration of an item that
\* took Step1Sleep and Step2Sleep above Under300 and above Under1s.
Elapsed1 == {Step1Sleep, Under50 + 1}
Elapsed2 == {Step2Sleep, Under50 + 1}
Elapsed3 ==
    {Step3Sleep, Under300 - Step1Sleep - Step2Sleep + 1,
     Under1s - Step1Sleep - Step2Sleep + 1}

\* the results a call that can fail may have: failures stop once calls have
\* failed MaxFaults times
Outcomes == IF faults < MaxFaults THEN BOOLEAN ELSE {TRUE}

Step1Inputs(outcomes) ==
    [method : Methods, cid : HeaderCids, inject : InjectHeaders, uuid : Uuids,
     trace : TraceIds, elapsed : Elapsed1, injectOk : outcomes, marshalOk : outcomes,
     sendOk : outcomes]

Step2Inputs(outcomes) ==
    [uuid : Uuids, trace : TraceIds, elapsed : Elapsed2, injectOk : outcomes,
     marshalOk : outcomes, sendOk : outcomes, deleteOk : outcomes]

Step3Inputs(outcomes) ==
    [uuid : Uuids, trace : TraceIds, elapsed : Elapsed3, deleteOk : outcomes]

HomeInputs == [cid : HeaderCids, uuid : Uuids, trace : TraceIds]

\* Messages another producer may put on a queue, built at instant t: an
\* undecodable body; a work item with an empty correlation id, a step2_complete
\* that is already set, current_step 3 and a valid trace carrier; a work item
\* with an error_type other than "invalid_data", a start_time that does not
\* parse, current_step 1 and a corrupt trace carrier.
ExternalItem(c, e, start, s1, s2, step) ==
    Marshal(PipelineMessage(c, <<"external data">>, start, s1, s2, step, e))

ExternalMessages(t) ==
    { Msg(Garbage, EmptyCarrier, 0, "external"),
      Msg(ExternalItem("", "", Format(t), Format(t), Format(t), 3),
          MsgAttrs("", Inject(ExternalTrace, TRUE)), 0, "external"),
      Msg(ExternalItem("cid-x", "timeout", BadTs, Format(t), EmptyTs, 1),
          MsgAttrs("cid-x", Inject("not-a-trace-id", TRUE)), 0, "external") }

----------------------------------------------------------------------------
(* State machine *)

BagOfSeq(seq) == [m \in Range(seq) |-> Cardinality({i \in DOMAIN seq : seq[i] = m})]

SeqsUpTo(S, n) == UNION {[1..k -> S] : k \in 0..n}

Max(a, b) == IF a > b THEN a ELSE b

Services == {"service1", "service2", "service3"}

\* requests are numbered from 1; 0 stands for a message no request created
MaxReqId == IF MaxHandlers > MaxRequests THEN MaxHandlers ELSE MaxRequests

\* no handler has returned in the latest step
NoRun == [svc |-> "none"]

Started ==
    /\ metrics = [k \in {} |-> 0]
    /\ reqs = <<>>
    /\ last = NoRun
    /\ e2e = [r \in 0..MaxReqId |-> 0]
    /\ now = 0
    /\ faults = 0
    /\ running = {"service2", "service3"}
    /\ inflight = [svc \in Services |-> {}]
    /\ issued = [uuid |-> 0, trace |-> 0]
    /\ homes = 0
    /\ slow = 0
    /\ refused = 0
    /\ backoff = -1

\* The services start with empty counters.  The queues outlive the services:
\* they hold whatever other producers have sent, at most MaxInjected messages.
InitForeign ==
    /\ \E s1 \in SeqsUpTo(ExternalMessages(0), MaxInjected) :
         \E s2 \in SeqsUpTo(ExternalMessages(0), MaxInjected - Len(s1)) :
            /\ queue1 = BagOfSeq(s1)
            /\ queue2 = BagOfSeq(s2)
    /\ Started

\* the pipeline alone: no producer but service1 and service2
Init ==
    /\ queue1 = EmptyBag
    /\ queue2 = EmptyBag
    /\ Started

\* uuid.New() and the id of a new root span: values no earlier call has returned
FreshUuids ==
    IF issued.uuid < Len(UuidNames) THEN {UuidNames[issued.uuid + 1]} ELSE {}

FreshTraces ==
    IF issued.trace < Len(TraceNames) THEN {TraceNames[issued.trace + 1]} ELSE {}

Fresh(in) == in.uuid \in FreshUuids /\ in.trace \in FreshTraces

\* the counters after a handler that called uuid.New() iff newUuid and started a
\* root span iff newTrace
Issue(newUuid, newTrace) ==
    [uuid |-> issued.uuid + (IF newUuid THEN 1 ELSE 0),
     trace |-> issued.trace + (IF newTrace THEN 1 ELSE 0)]

\* the inputs of a handler that begins: the ids uuid.New() and the tracer give
\* next, no call has returned yet
Arriving1 ==
    [method : Methods, cid : HeaderCids, inject : InjectHeaders, uuid : FreshUuids,
     trace : FreshTraces, elapsed : {Step1Sleep}, injectOk : {TRUE}, marshalOk : {TRUE},
     sendOk : {TRUE}]

Arriving2 ==
    [uuid : FreshUuids, trace : FreshTraces, elapsed : {Step2Sleep}, injectOk : {TRUE},
     marshalOk : {TRUE}, sendOk : {TRUE}, deleteOk : {TRUE}]

Arriving3 ==
    [uuid : FreshUuids, trace : FreshTraces, elapsed : {Step3Sleep}, deleteOk : {TRUE}]

ArrivingHome == [cid : HeaderCids, uuid : FreshUuids, trace : FreshTraces]

Budget(failed) == IF failed THEN faults < MaxFaults ELSE TRUE

Spend(failed) == faults + (IF failed THEN 1 ELSE 0)

\* A handler runs from one blocking call to the next: time.Sleep, SendMessage and
\* DeleteMessage let the other goroutines and processes run.  An invocation in
\* flight is a record of its inputs as far as they are known (in), of the instant
\* it began (t), of the position pc, in the calls it makes, of the blocking call
\* it is in, 0 before the first, and of the calls SQS has carried out for it
\* (executed).  What a call returns, and how long the handler has taken, is known
\* when the call returns: until then in holds TRUE for the call and the time
\* asked for as the duration of the sleep.
Blocking == {"sleep", "send", "delete"}

\* the calls that SQS carries out while the handler waits for the answer
SqsCalls == {"send", "delete"}

\* the position of the next blocking call after pc, Len(ops) + 1 when there is none
NextStop(ops, pc) ==
    LET S == {j \in (pc + 1)..Len(ops) : ops[j].op \in Blocking}
    IN  IF S = {} THEN Len(ops) + 1 ELSE CHOOSE j \in S : \A k \in S : j <= k

\* the calls made between the return of the call at pc and the next blocking call
Segment(ops, pc) == SubSeq(ops, pc + 1, NextStop(ops, pc) - 1)

\* the handler returns at the end of the segment after pc
Returns(ops, pc) == NextStop(ops, pc) > Len(ops)

\* the blocking call at pc, which returns now, is a call of kind op
Completes(ops, pc, op) == pc > 0 /\ ops[pc].op = op

\* a call returns without error only when SQS has carried it out; it can return
\* an error whether SQS has carried it out or not (the answer is lost, the
\* context of the call is cancelled or its deadline passes)
CallAnswered(ops, pc, op, ok, executed) ==
    (Completes(ops, pc, op) /\ ok) => op \in executed

\* a call fails at this step: in has a failure that known does not have
NewFault(known, in) ==
    \E f \in DOMAIN in \cap {"injectOk", "marshalOk", "sendOk", "deleteOk"} :
        known[f] /\ ~in[f]

\* what the handler invocation h of svc does, as far as its inputs are known
RunOf(svc, h) ==
    IF svc = "service1" THEN sendMessageHandler(h.in, h.req, h.t)
    ELSE IF svc = "service2" THEN processStep2Message(h.msg, h.in, h.t)
    ELSE processStep3Message(h.msg, h.in, h.t)

\* the messages SQS has accepted from the invocation h of svc
Enqueued(svc, h) == IF "send" \in h.executed THEN RunOf(svc, h).sent ELSE {}

\* SQS carries out the SendMessage or DeleteMessage the invocation h of svc is
\* waiting in: the message sent is on the queue, the message deleted is gone, from
\* this moment on, before the call has returned to the handler
SqsExecutes(svc, h) ==
    LET r == RunOf(svc, h)
        op == IF h.pc > 0 THEN r.ops[h.pc].op ELSE "none"
    IN  /\ h \in inflight[svc]
        /\ op \in SqsCalls
        /\ op \notin h.executed
        /\ queue1' = IF svc = "service1" /\ op = "send"
                     THEN queue1 (+) SetToBag(r.sent)
                     ELSE IF svc = "service2" /\ op = "delete"
                     THEN queue1 (-) SetToBag({h.msg})
                     ELSE queue1
        /\ queue2' = IF svc = "service2" /\ op = "send"
                     THEN queue2 (+) SetToBag(r.sent)
                     ELSE IF svc = "service3" /\ op = "delete"
                     THEN queue2 (-) SetToBag({h.msg})
                     ELSE queue2
        /\ inflight' = [inflight EXCEPT ![svc] =
                            (@ \ {h}) \cup {[h EXCEPT !.executed = @ \cup {op}]}]
        /\ last' = NoRun
        /\ UNCHANGED <<metrics, reqs, e2e, now, faults, running, issued, homes, slow,
                       refused, backoff>>

\* the inputs of sendMessageHandler in flight once the call at pc has returned
Resume1(h, durations, outcomes) ==
    LET ops == sendMessageHandler(h.in, h.req, h.t).ops
    IN  IF Completes(ops, h.pc, "sleep")
        THEN {[h.in EXCEPT !.elapsed = d, !.injectOk = a, !.marshalOk = b] :
                 d \in durations, a \in outcomes, b \in outcomes}
        ELSE IF Completes(ops, h.pc, "send")
        THEN {[h.in EXCEPT !.sendOk = a] : a \in outcomes}
        ELSE {h.in}

\* the http server starts sendMessageHandler for a request, in a goroutine of its
\* own; reqs lists the requests that passed the method check, with the
\* correlation id each was given and, once written, its answer.  A request the
\* method check rejects has none of its headers read.
BeginRequest(in) ==
    LET post == MethodAllowed(in.method)
        req == IF post THEN Len(reqs) + 1 ELSE 0
        r == sendMessageHandler(in, req, now)
    IN  /\ Fresh(in)
        /\ in.elapsed = Step1Sleep /\ in.injectOk /\ in.marshalOk /\ in.sendOk
        /\ ~post => in.cid = "" /\ in.inject = ""
        /\ reqs' = IF post
                   THEN Append(reqs, [inject |-> r.inject, status |-> 0,
                                      assigned |-> r.assigned, start |-> now])
                   ELSE reqs
        /\ refused' = IF post THEN refused ELSE refused + 1
        /\ inflight' = [inflight EXCEPT !["service1"] =
                            @ \cup {[req |-> req, in |-> in, t |-> now, pc |-> 0,
                                     executed |-> {}]}]
        /\ issued' = Issue(post /\ in.cid = "", post)
        /\ last' = NoRun
        /\ UNCHANGED <<queue1, queue2, metrics, e2e, now, faults, running, homes, slow,
                       backoff>>

\* the blocking call sendMessageHandler is in returns, in tells how; the handler
\* goes on to its next blocking call, or returns
RequestStep(h, in) ==
    LET r == sendMessageHandler(in, h.req, h.t)
        done == Returns(r.ops, h.pc)
    IN  /\ h \in inflight["service1"]
        /\ Budget(NewFault(h.in, in))
        /\ CallAnswered(r.ops, h.pc, "send", in.sendOk, h.executed)
        /\ metrics' = Record(metrics, Segment(r.ops, h.pc))
        /\ now' = IF Completes(r.ops, h.pc, "sleep") THEN Max(now, h.t + r.elapsed) ELSE now
        /\ inflight' = [inflight EXCEPT !["service1"] =
                            (@ \ {h}) \cup (IF done THEN {}
                                            ELSE {[h EXCEPT !.in = in,
                                                            !.pc = NextStop(r.ops, h.pc)]})]
        /\ reqs' = IF done /\ h.req > 0
                   THEN [reqs EXCEPT ![h.req].status = r.response.status] ELSE reqs
        /\ last' = IF done
                   THEN [executed |-> h.executed, enqueued |-> Enqueued("service1", h)] @@ r
                   ELSE NoRun
        /\ faults' = Spend(NewFault(h.in, in))
        /\ slow' = slow + (IF in.elapsed # h.in.elapsed THEN 1 ELSE 0)
        /\ UNCHANGED <<queue1, queue2, e2e, running, issued, homes, refused, backoff>>

\* one HTTP request to /send-message: net/http runs the handler whatever the
\* services are doing
SendMessageRequest(in) ==
    /\ Len(reqs) + refused < MaxRequests
    /\ BeginRequest(in)

\* http.ListenAndServe runs every request in a goroutine of its own: the
\* handler of a request begins whatever other requests are being served
ServeRequest(in) ==
    /\ MethodAllowed(in.method)
    /\ Len(reqs) < MaxHandlers
    /\ BeginRequest(in)

\* mutant: the loop gives up when a send has failed
Step2LoopStopsOnSendFailure(outcome) == outcome # "send_failed"

\* mutant: the loop ends on a malformed message
Step2LoopStopsOnMalformed(outcome) == outcome # "malformed"

\* consumeFromStep1 is a for loop without break or return: whatever
\* processStep2Message did, the loop goes on to the next ReceiveMessage
Step2LoopContinues(outcome) == TRUE

\* consumeFromStep2, likewise
Step3LoopContinues(outcome) == TRUE

\* mutant: the loop starts a goroutine for the message and goes on receiving
Step2CallInGoroutine == FALSE

\* consumeFromStep1 calls processStep2Message(msg) in its own goroutine, the only
\* one main starts: the next ReceiveMessage comes after the call has returned
Step2CallIsSynchronous == TRUE

\* mutant: consumeFromStep2 hands the message to a goroutine
Step3CallInGoroutine == FALSE

\* consumeFromStep2 and processStep3Message, likewise
Step3CallIsSynchronous == TRUE

\* a received message is hidden from other receives until it is deleted or its
\* visibility timeout expires
Visible(msg, svc) == \A h \in inflight[svc] : h.msg # msg

\* the inputs of processStep2Message in flight once the call at pc has returned
Resume2(h, durations, outcomes) ==
    LET ops == processStep2Message(h.msg, h.in, h.t).ops
    IN  IF Completes(ops, h.pc, "sleep")
        THEN {[h.in EXCEPT !.elapsed = d, !.injectOk = a, !.marshalOk = b] :
                 d \in durations, a \in outcomes, b \in outcomes}
        ELSE IF Completes(ops, h.pc, "send")
        THEN {[h.in EXCEPT !.sendOk = a] : a \in outcomes}
        ELSE IF Completes(ops, h.pc, "delete")
        THEN {[h.in EXCEPT !.deleteOk = a] : a \in outcomes}
        ELSE {h.in}

\* one iteration of consumeFromStep1: ReceiveMessage returned msg and
\* processStep2Message begins, whatever service1 and service3 are doing
ConsumeFromStep1(msg, in) ==
    /\ "service2" \in running
    /\ backoff < 0
    /\ Step2CallIsSynchronous => inflight["service2"] = {}
    /\ msg \in BagToSet(queue1)
    /\ Visible(msg, "service2")
    /\ Fresh(in)
    /\ in.elapsed = Step2Sleep /\ in.injectOk /\ in.marshalOk /\ in.sendOk /\ in.deleteOk
    /\ inflight' = [inflight EXCEPT !["service2"] =
                        @ \cup {[msg |-> msg, in |-> in, t |-> now, pc |-> 0,
                                 executed |-> {}]}]
    /\ issued' = Issue(Unmarshal(msg.body).ok
                           /\ Unmarshal(msg.body).message.correlation_id = "",
                       Unmarshal(msg.body).ok /\ ~Extract(CarrierOf(msg)).ok)
    /\ last' = NoRun
    /\ UNCHANGED <<queue1, queue2, metrics, reqs, e2e, now, faults, running, homes, slow,
                   refused, backoff>>

\* the blocking call processStep2Message is in returns, in tells how; the handler
\* goes on to its next blocking call, or returns
Step2Step(h, in) ==
    LET r == processStep2Message(h.msg, in, h.t)
        done == Returns(r.ops, h.pc)
    IN  /\ h \in inflight["service2"]
        /\ Budget(NewFault(h.in, in))
        /\ CallAnswered(r.ops, h.pc, "send", in.sendOk, h.executed)
        /\ CallAnswered(r.ops, h.pc, "delete", in.deleteOk, h.executed)
        /\ metrics' = Record(metrics, Segment(r.ops, h.pc))
        /\ now' = IF Completes(r.ops, h.pc, "sleep") THEN Max(now, h.t + r.elapsed) ELSE now
        /\ inflight' = [inflight EXCEPT !["service2"] =
                            (@ \ {h}) \cup (IF done THEN {}
                                            ELSE {[h EXCEPT !.in = in,
                                                            !.pc = NextStop(r.ops, h.pc)]})]
        /\ last' = IF done
                   THEN [executed |-> h.executed, enqueued |-> Enqueued("service2", h)] @@ r
                   ELSE NoRun
        /\ faults' = Spend(NewFault(h.in, in))
        /\ running' = IF done /\ ~Step2LoopContinues(r.outcome)
                      THEN running \ {"service2"} ELSE running
        /\ slow' = slow + (IF in.elapsed # h.in.elapsed THEN 1 ELSE 0)
        /\ UNCHANGED <<queue1, queue2, reqs, e2e, issued, homes, refused, backoff>>

\* the inputs of processStep3Message in flight once the call at pc has returned
Resume3(h, durations, outcomes) ==
    LET ops == processStep3Message(h.msg, h.in, h.t).ops
    IN  IF Completes(ops, h.pc, "sleep")
        THEN {[h.in EXCEPT !.elapsed = d] : d \in durations}
        ELSE IF Completes(ops, h.pc, "delete")
        THEN {[h.in EXCEPT !.deleteOk = a] : a \in outcomes}
        ELSE {h.in}

\* one iteration of consumeFromStep2: ReceiveMessage returned msg and
\* processStep3Message begins, whatever service1 and service2 are doing
ConsumeFromStep2(msg, in) ==
    /\ "service3" \in running
    /\ Step3CallIsSynchronous => inflight["service3"] = {}
    /\ msg \in BagToSet(queue2)
    /\ Visible(msg, "service3")
    /\ Fresh(in)
    /\ in.elapsed = Step3Sleep /\ in.deleteOk
    /\ inflight' = [inflight EXCEPT !["service3"] =
                        @ \cup {[msg |-> msg, in |-> in, t |-> now, pc |-> 0,
                                 executed |-> {}]}]
    /\ issued' = Issue(Unmarshal(msg.body).ok
                           /\ Unmarshal(msg.body).message.correlation_id = "",
                       Unmarshal(msg.body).ok /\ ~Extract(CarrierOf(msg)).ok)
    /\ last' = NoRun
    /\ UNCHANGED <<queue1, queue2, metrics, reqs, e2e, now, faults, running, homes, slow,
                   refused, backoff>>

\* the blocking call processStep3Message is in returns, in tells how; the handler
\* goes on to its next blocking call, or returns
Step3Step(h, in) ==
    LET r == processStep3Message(h.msg, in, h.t)
        done == Returns(r.ops, h.pc)
    IN  /\ h \in inflight["service3"]
        /\ Budget(NewFault(h.in, in))
        /\ CallAnswered(r.ops, h.pc, "delete", in.deleteOk, h.executed)
        /\ metrics' = Record(metrics, Segment(r.ops, h.pc))
        /\ e2e' = [e2e EXCEPT ![h.msg.req] =
                      @ + Times(Segment(r.ops, h.pc), "timing",
                                "business.pipeline.end_to_end.duration")]
        /\ now' = IF Completes(r.ops, h.pc, "sleep") THEN Max(now, h.t + r.elapsed) ELSE now
        /\ inflight' = [inflight EXCEPT !["service3"] =
                            (@ \ {h}) \cup (IF done THEN {}
                                            ELSE {[h EXCEPT !.in = in,
                                                            !.pc = NextStop(r.ops, h.pc)]})]
        /\ last' = IF done
                   THEN [executed |-> h.executed, enqueued |-> Enqueued("service3", h)] @@ r
                   ELSE NoRun
        /\ faults' = Spend(NewFault(h.in, in))
        /\ running' = IF done /\ ~Step3LoopContinues(r.outcome)
                      THEN running \ {"service3"} ELSE running
        /\ slow' = slow + (IF in.elapsed # h.in.elapsed THEN 1 ELSE 0)
        /\ UNCHANGED <<queue1, queue2, reqs, issued, homes, refused, backoff>>

\* consumeFromStep1, ReceiveMessage returned an error: log, count, pause
Step2ReceiveFailure ==
    <<Log("service2", "error", "Failed to receive messages from SQS, retrying..."),
      Incr("service2", "business.pipeline.errors.sqs.receive", "")>>

\* time.Sleep(5 * time.Second) before the next ReceiveMessage
Step2ReceiveBackoff == 5000

\* consumeFromStep2, ReceiveMessage returned an error: continue, nothing else
Step3ReceiveFailure == <<>>

Step3ReceiveBackoff == 0

\* what an iteration of a consumer loop did when its ReceiveMessage failed
ReceiveResult(loop, ops, wait) ==
    [svc |-> loop, outcome |-> "receive_failed", ops |-> ops, elapsed |-> wait,
     failed |-> TRUE]

\* ReceiveMessage of consumeFromStep1 returns an error, whatever service1 and
\* service3 are doing: the loop logs and counts the error and begins its pause
ReceiveErrorStep1 ==
    LET r == ReceiveResult("consumeFromStep1", Step2ReceiveFailure, Step2ReceiveBackoff)
    IN  /\ "service2" \in running
        /\ inflight["service2"] = {}
        /\ backoff < 0
        /\ Budget(r.failed)
        /\ metrics' = Record(metrics, r.ops)
        /\ backoff' = now
        /\ last' = NoRun
        /\ faults' = Spend(r.failed)
        /\ UNCHANGED <<queue1, queue2, reqs, e2e, now, running, inflight, issued, homes,
                       slow, refused>>

\* the pause of consumeFromStep1 is over: continue, to the next ReceiveMessage
ReceiveBackoffStep1 ==
    LET r == ReceiveResult("consumeFromStep1", Step2ReceiveFailure, Step2ReceiveBackoff)
    IN  /\ backoff >= 0
        /\ now' = Max(now, backoff + r.elapsed)
        /\ backoff' = -1
        /\ last' = r
        /\ running' = IF Step2LoopContinues(r.outcome) THEN running
                       ELSE running \ {"service2"}
        /\ UNCHANGED <<queue1, queue2, metrics, reqs, e2e, faults, inflight, issued,
                       homes, slow, refused>>

\* ReceiveMessage of consumeFromStep2 returns an error, whatever service1 and
\* service2 are doing: continue, to the next ReceiveMessage
ReceiveErrorStep2 ==
    LET r == ReceiveResult("consumeFromStep2", Step3ReceiveFailure, Step3ReceiveBackoff)
    IN  /\ "service3" \in running
        /\ inflight["service3"] = {}
        /\ Budget(r.failed)
        /\ metrics' = Record(metrics, r.ops)
        /\ last' = r
        /\ now' = now + r.elapsed
        /\ faults' = Spend(r.failed)
        /\ running' = IF Step3LoopContinues(r.outcome) THEN running
                       ELSE running \ {"service3"}
        /\ UNCHANGED <<queue1, queue2, reqs, e2e, inflight, issued, homes, slow, refused,
                       backoff>>

\* homeHandler of svc: the health endpoint "/"
homeHandler(svc, in) ==
    [svc |-> "homeHandler", service |-> svc,
     correlationID |-> CorrelationIDOrNew(in.cid, in.uuid),
     ops |-> <<Incr(svc, "sli.requests.total", "endpoint:/"),
               Incr(svc, "sli.requests.success", "endpoint:/")>>]

\* one request to / on svc, served whatever the other handlers are doing
HomeRequest(svc, in) ==
    LET r == homeHandler(svc, in)
    IN  /\ homes < MaxHome
        /\ Fresh(in)
        /\ metrics' = Record(metrics, r.ops)
        /\ last' = r
        /\ homes' = homes + 1
        /\ issued' = Issue(in.cid = "", TRUE)
        /\ UNCHANGED <<queue1, queue2, reqs, e2e, now, faults, running, inflight, slow,
                       refused, backoff>>

\* a request to /send-message arrives
Ingress == \E in \in Arriving1 : SendMessageRequest(in)

\* consumeFromStep1 receives a message
Consumer2 ==
    \E msg \in BagToSet(queue1), in \in Arriving2 : ConsumeFromStep1(msg, in)

\* consumeFromStep2 receives a message
Consumer3 ==
    \E msg \in BagToSet(queue2), in \in Arriving3 : ConsumeFromStep2(msg, in)

\* the durations a handler may have that asked for a sleep of d: at most MaxSlow
\* handlers take longer than they asked for
Paces(elapsed, d) == IF slow < MaxSlow THEN elapsed ELSE {d}

\* the handlers in flight go on: the call a handler is in returns
Steps(outcomes) ==
    \/ \E h \in inflight["service1"] :
          \E in \in Resume1(h, Paces(Elapsed1, Step1Sleep), outcomes) : RequestStep(h, in)
    \/ \E h \in inflight["service2"] :
          \E in \in Resume2(h, Paces(Elapsed2, Step2Sleep), outcomes) : Step2Step(h, in)
    \/ \E h \in inflight["service3"] :
          \E in \in Resume3(h, Paces(Elapsed3, Step3Sleep), outcomes) : Step3Step(h, in)

\* the handlers in flight go on, every sleep lasting what was asked for
OnTime(outcomes) ==
    \/ \E h \in inflight["service1"] :
          \E in \in Resume1(h, {Step1Sleep}, outcomes) : RequestStep(h, in)
    \/ \E h \in inflight["service2"] :
          \E in \in Resume2(h, {Step2Sleep}, outcomes) : Step2Step(h, in)
    \/ \E h \in inflight["service3"] :
          \E in \in Resume3(h, {Step3Sleep}, outcomes) : Step3Step(h, in)

\* SQS carries out a call one of the handlers is waiting in
Sqs == \E svc \in Services : \E h \in inflight[svc] : SqsExecutes(svc, h)

Home == \E svc \in Services, in \in ArrivingHome : HomeRequest(svc, in)

\* The three services side by side: requests arrive, the consumers receive, the
\* handlers go from call to call, calls and receives fail at most MaxFaults times.
Next ==
    \/ Ingress
    \/ Consumer2
    \/ Consumer3
    \/ Steps(Outcomes)
    \/ Sqs
    \/ ReceiveErrorStep1
    \/ ReceiveBackoffStep1
    \/ ReceiveErrorStep2

Spec == Init /\ [][Next]_vars

\* the pipeline and the health endpoints of the three services; calls and
\* receives fail at most MaxFaults times, every sleep lasts what was asked for
NextEndpoints ==
    \/ Ingress
    \/ Consumer2
    \/ Consumer3
    \/ OnTime(Outcomes)
    \/ Sqs
    \/ ReceiveErrorStep1
    \/ ReceiveBackoffStep1
    \/ ReceiveErrorStep2
    \/ Home

EndpointsSpec == Init /\ [][NextEndpoints]_vars

\* the receives never fail; calls fail at most MaxFaults times
NextRun ==
    \/ Ingress
    \/ Consumer2
    \/ Consumer3
    \/ Steps(Outcomes)
    \/ Sqs

\* no transport or library call fails
NextLive ==
    \/ Ingress
    \/ Consumer2
    \/ Consumer3
    \/ Steps({TRUE})
    \/ Sqs

\* a handler of svc has gone on: SQS has carried out the call it is in, or the
\* call has returned
Advances(svc) == ~(inflight[svc] \subseteq inflight'[svc])

\* A handler that has begun goes on: the Go scheduler runs every goroutine, SQS
\* carries out the calls and the blocking calls return.  This is weak fairness of
\* the steps of each service's handlers, which are enabled exactly when a handler
\* is in flight.
Progress ==
    \A svc \in Services : []<>(inflight[svc] = {}) \/ []<><<Advances(svc)>>_vars

\* the loop of svc is at its ReceiveMessage and the item of request r is on queue
Receivable(svc, queue, r) ==
    /\ svc \in running
    /\ inflight[svc] = {}
    /\ svc = "service2" => backoff < 0
    /\ FreshUuids # {} /\ FreshTraces # {}
    /\ \E m \in BagToSet(queue) : m.req = r

\* svc has received the item of request r
Receives(svc, r) == \E h \in inflight'[svc] \ inflight[svc] : h.msg.req = r /\ h.pc = 0

\* SQS delivers the messages of a queue to the loop that polls it: each work item
\* on a queue is received eventually by the consumer loop of that queue (weak
\* fairness of the receive of each item, enabled exactly when Receivable).
Delivery ==
    \A r \in 0..MaxRequests :
        /\ []<>(~Receivable("service2", queue1, r)) \/ []<><<Receives("service2", r)>>_vars
        /\ []<>(~Receivable("service3", queue2, r)) \/ []<><<Receives("service3", r)>>_vars

LiveSpec == Init /\ [][NextLive]_vars /\ Delivery /\ Progress

\* the pipeline with messages of other producers on its queues, no transport or
\* library call failing
ForeignSpec == InitForeign /\ [][NextLive]_vars

\* SQS delivers a message that was received and not deleted again after its
\* visibility timeout: each work item on service-queue-step1 is received again
\* and again by consumeFromStep1
Redelivery ==
    \A r \in 0..MaxRequests :
        []<>(~Receivable("service2", queue1, r)) \/ []<><<Receives("service2", r)>>_vars

\* failures occur, at most MaxFaults of them, and messages are redelivered
RetrySpec == Init /\ [][NextRun]_vars /\ Redelivery /\ Progress

RunSpec == Init /\ [][NextRun]_vars /\ Progress

\* Durations at and just above each threshold; those of step 3 also bring the
\* end-to-end duration of an item that took Step1Sleep and Step2Sleep to Under300
\* and Under1s.
Durations1 == {Step1Sleep, Under50, Under50 + 1}
Durations2 == {Step2Sleep, Under50, Under50 + 1}
Durations3 ==
    {Step3Sleep, Under60, Under60 + 1,
     Under300 - Step1Sleep - Step2Sleep, Under300 - Step1Sleep - Step2Sleep + 1,
     Under1s - Step1Sleep - Step2Sleep, Under1s - Step1Sleep - Step2Sleep + 1}

\* the pipeline with handlers of any of these durations, no call failing
NextLatency ==
    \/ Ingress
    \/ Consumer2
    \/ Consumer3
    \/ \E h \in inflight["service1"] :
          \E in \in Resume1(h, Durations1, {TRUE}) : RequestStep(h, in)
    \/ \E h \in inflight["service2"] :
          \E in \in Resume2(h, Durations2, {TRUE}) : Step2Step(h, in)
    \/ \E h \in inflight["service3"] :
          \E in \in Resume3(h, Durations3, {TRUE}) : Step3Step(h, in)
    \/ Sqs

LatencySpec == Init /\ [][NextLatency]_vars

\* several requests at a time, no call failing, every sleep lasting what was
\* asked for
NextConcurrent ==
    \/ \E in \in Arriving1 : ServeRequest(in)
    \/ Consumer2
    \/ Consumer3
    \/ OnTime({TRUE})
    \/ Sqs

ConcurrentSpec == Init /\ [][NextConcurrent]_vars

----------------------------------------------------------------------------
(* Properties *)

Ran(svc) == last.svc = svc

\* the latest run handled a work item that request r created
RanOnRequest(svc) == Ran(svc) /\ last.msg.req > 0

\* the work item as the latest consumer run decoded it
Received == Unmarshal(last.msg.body).message

\* the value of the sample of metric name in ops
TimingVal(ops, name) ==
    LET i == CHOOSE j \in DOMAIN ops : ops[j].op = "timing" /\ ops[j].name = name
    IN  ops[i].val

Produced == {m \in BagToSet(queue1) \cup BagToSet(queue2) : m.from \in {"service1", "service2"}}

\* C1: a work item created at ingress with the inject-error flag is short-circuited
\* by service2: step2_complete stays empty, business.pipeline.errors.step2 is
\* incremented, DeleteMessage is issued on service-queue-step1 (the message is
\* gone once SQS has carried the call out, as it has when the call returns
\* without error), nothing is sent to service-queue-step2, and service3 never
\* receives the item.
C1_InjectedErrorShortCircuits ==
    /\ (RanOnRequest("service2") /\ reqs[last.msg.req].inject) =>
          /\ last.outcome = "short_circuit"
          /\ last.message.step2_complete = EmptyTs
          /\ Has(last.ops, "incr", "business.pipeline.errors.step2")
          /\ Has(last.ops, "delete", "service-queue-step1")
          /\ last.deleted = ~last.failed
          /\ last.deleted => "delete" \in last.executed
          /\ "delete" \in last.executed => last.msg \notin BagToSet(queue1)
          /\ ~Has(last.ops, "send", "service-queue-step2")
          /\ last.sent = {}
          /\ last.enqueued = {}
    /\ \A m \in BagToSet(queue2) : m.req > 0 => ~reqs[m.req].inject
    /\ RanOnRequest("service3") => ~reqs[last.msg.req].inject

C1_Witness ==
    /\ RanOnRequest("service2")
    /\ reqs[last.msg.req].inject
    /\ Received.error_type = "invalid_data"
    /\ last.deleted
    /\ last.msg \notin BagToSet(queue1)

\* C2: for every decoded message whose error_type is non-empty, service2 writes no
\* step2_complete, leaves data unchanged and forwards nothing.
C2_AnyErrorTypeShortCircuits ==
    (Ran("service2") /\ last.outcome # "malformed" /\ Received.error_type # "") =>
        /\ last.message.step2_complete = Received.step2_complete
        /\ last.message.data = Received.data
        /\ last.sent = {}

\* C3: for every decoded message whose error_type is set, service3 emits no
\* derived metric and no success or completed counter.
C3_Stage3ShortCircuits ==
    (Ran("service3") /\ last.outcome # "malformed" /\ Received.error_type # "") =>
        /\ \A i \in DOMAIN last.ops : last.ops[i].op # "timing"
        /\ ~Has(last.ops, "incr", "sli.processing.success")
        /\ ~Has(last.ops, "incr", "sli.pipeline.success")
        /\ ~Has(last.ops, "incr", "business.pipeline.completed")

\* C4: on an undecodable body service2 issues DeleteMessage on service-queue-step1,
\* which SQS carries out, and sends nothing; once a
\* malformed message has been met the consumer loop is still running and, back at
\* its ReceiveMessage, can receive and process every message on
\* service-queue-step1.
C4_MalformedDroppedLoopContinues ==
    /\ (Ran("service2") /\ ~last.msg.body.valid) =>
          /\ last.outcome = "malformed"
          /\ Has(last.ops, "delete", "service-queue-step1")
          /\ last.deleted
          /\ "delete" \in last.executed
          /\ ~Has(last.ops, "send", "service-queue-step2")
          /\ last.sent = {}
          /\ last.enqueued = {}
    /\ Counter("service2", "business.pipeline.errors.json.unmarshal") > 0 =>
          /\ "service2" \in running
          /\ (inflight["service2"] = {} /\ backoff < 0) =>
                \A m \in BagToSet(queue1) :
                    ENABLED (\E in \in Arriving2 : ConsumeFromStep1(m, in))

\* a well-formed item was forwarded after a malformed message had been dropped
C4_Witness ==
    /\ Ran("service2")
    /\ last.outcome = "forwarded"
    /\ Counter("service2", "business.pipeline.errors.json.unmarshal") > 0

\* C5: at service2 and at service3 alike, the run that finds a message undecodable
\* issues DeleteMessage for it.
C5_MalformedDeletedEverywhere ==
    ((Ran("service2") \/ Ran("service3")) /\ ~last.msg.body.valid) =>
        \E i \in DOMAIN last.ops : last.ops[i].op = "delete"

\* C6: when json.Marshal or the SendMessage to service-queue-step2 fails, service2
\* issues no DeleteMessage (the input message stays on service-queue-step1), makes
\* at most the one send attempt, and no message of that run is on
\* service-queue-step2.
C6_ForwardFailureLeavesInput ==
    (Ran("service2") /\ last.outcome \in {"marshal_failed", "send_failed"}) =>
        /\ ~Has(last.ops, "delete", "service-queue-step1")
        /\ ~last.deleted
        /\ last.msg \in BagToSet(queue1)
        /\ Times(last.ops, "send", "service-queue-step2")
              = (IF last.outcome = "send_failed" THEN 1 ELSE 0)
        /\ last.sent = {}
        /\ last.enqueued = {}

\* C7: when sendToService2 fails, nothing of that request is on
\* service-queue-step1, sli.requests.error and business.pipeline.errors.sqs.send are
\* incremented, and the request is answered 500, not with the success response.
C7_Step1SendFailure ==
    (Ran("service1") /\ last.outcome = "failed") =>
        /\ last.sent = {}
        /\ last.enqueued = {}
        /\ Has(last.ops, "incr", "sli.requests.error")
        /\ Has(last.ops, "incr", "business.pipeline.errors.sqs.send")
        /\ last.response.status = 500
        /\ reqs[Len(reqs)].status = 500

\* the request passed the method check without the inject-error flag and was
\* answered with success
Accepted(r) == r <= Len(reqs) /\ ~reqs[r].inject /\ reqs[r].status = 200

StageStampKeys == {"step1_complete", "step2_complete", "step3_complete"}

\* number of stage-complete timestamps the message carries
StageStamps(message) ==
    Cardinality({k \in StageStampKeys \cap DOMAIN message : message[k] # EmptyTs})

\* C8: the item of a request without error_type that has gone through
\* service1, service2 and service3, no call failing, has accumulated three
\* stage-complete timestamps, one of each stage.
C8_ThreeStamps ==
    (RanOnRequest("service3") /\ last.outcome = "terminated" /\ Accepted(last.msg.req)) =>
        StageStamps(last.message) = 3

\* C9: for every work item created at ingress, the correlation id service2 and
\* service3 work with, and the correlation_id of the message they decoded, equal
\* the id the request was given at ingress (header or generated), also on a
\* redelivery.
C9_CorrelationStable ==
    (RanOnRequest("service2") \/ RanOnRequest("service3")) =>
        /\ last.correlationID = reqs[last.msg.req].assigned
        /\ last.message.correlation_id = reqs[last.msg.req].assigned
        /\ Received.correlation_id = reqs[last.msg.req].assigned

\* service3 processed the item a second time (redelivered after a failed delete)
C9_Witness ==
    /\ RanOnRequest("service3")
    /\ e2e[last.msg.req] = 2
    /\ last.correlationID = reqs[last.msg.req].assigned

\* C10: every message body service1 or service2 put on a queue carries a
\* non-empty correlation_id.
C10_CorrelationIdNeverEmpty ==
    \A m \in Produced : Unmarshal(m.body).message.correlation_id # ""

\* both timestamps present and parseable => a is not later than b
TsLeq(a, b) == (Parse(a).ok /\ Parse(b).ok) => Parse(a).t <= Parse(b).t

Ordered(message) ==
    /\ TsLeq(message.start_time, message.step1_complete)
    /\ TsLeq(message.step1_complete, message.step2_complete)
    /\ TsLeq(message.start_time, message.step2_complete)

\* C11: for every work item the pipeline created, on a queue or in the hands of
\* service2 or service3, the timestamps present are ordered: start_time <=
\* step1_complete <= step2_complete, and none is later than the time at which
\* service3 finished the item.
C11_MonotonicMilestones ==
    /\ \A m \in Produced : Ordered(Unmarshal(m.body).message)
    /\ (RanOnRequest("service2") \/ RanOnRequest("service3")) =>
          /\ Ordered(Received)
          /\ Ordered(last.message)
    /\ RanOnRequest("service3") =>
          /\ TsLeq(last.message.step2_complete, Format(now))
          /\ TsLeq(last.message.step1_complete, Format(now))
          /\ TsLeq(last.message.start_time, Format(now))

\* service3 finished an item that carries all three timestamps, strictly ordered
C11_Witness ==
    /\ RanOnRequest("service3")
    /\ last.outcome = "terminated"
    /\ Parse(last.message.start_time).ok
    /\ Parse(last.message.start_time).t < Parse(last.message.step1_complete).t
    /\ Parse(last.message.step1_complete).t < Parse(last.message.step2_complete).t
    /\ Parse(last.message.step2_complete).t < now

\* C12: current_step never decreases across a stage operation, and after a
\* stage has completed it is the number of that stage: 1 in what service1
\* enqueues, 2 in what service2 forwards, 3 in the item service3 has terminated.
C12_StepIsStageNumber ==
    /\ ((Ran("service2") \/ Ran("service3")) /\ last.outcome # "malformed") =>
          Received.current_step <= last.message.current_step
    /\ (Ran("service1") /\ last.outcome = "accepted") =>
          \A m \in last.sent : Unmarshal(m.body).message.current_step = 1
    /\ (Ran("service2") /\ last.outcome = "forwarded") =>
          last.message.current_step = 2
    /\ (Ran("service3") /\ last.outcome = "terminated") =>
          last.message.current_step = 3

\* C13: step2_complete, once written, is never rewritten: an item that reaches
\* service2 with step2_complete set is forwarded with that same value, and the
\* copies of one work item that service2 forwarded carry one step2_complete.
C13_NoMilestoneOverwrite ==
    /\ (Ran("service2") /\ last.outcome = "forwarded" /\ Received.step2_complete # EmptyTs) =>
          /\ last.message.step2_complete = Received.step2_complete
          /\ \A m \in last.sent :
                Unmarshal(m.body).message.step2_complete = Received.step2_complete
    /\ \A m1, m2 \in {m \in BagToSet(queue2) : m.from = "service2" /\ m.req > 0} :
          m1.req = m2.req =>
             Unmarshal(m1.body).message.step2_complete = Unmarshal(m2.body).message.step2_complete

CopiesOn(queue, r) ==
    LET ms == {m \in BagToSet(queue) : m.req = r}
    IN  IF ms = {} THEN 0
        ELSE BagCardinality([m \in ms |-> CopiesIn(m, queue)])

\* C14: a work item created at ingress is in at most one place: never on
\* service-queue-step1 and service-queue-step2 at the same time, and never twice
\* on service-queue-step2.
C14_HandoffIsMove ==
    \A r \in 1..Len(reqs) :
        /\ CopiesOn(queue1, r) + CopiesOn(queue2, r) <= 1
        /\ CopiesOn(queue2, r) <= 1

\* C15 as stated: at service1, service2 and service3 alike, at most one handler
\* invocation is in progress at any time.
C15_NoIntraStageParallelism ==
    \A svc \in Services : Cardinality(inflight[svc]) <= 1

\* C15: service2 and service3 never process more than one message at the same
\* time: a message is received only after the processing of the one before has
\* returned.  (service1 serves each request in a goroutine of its own.)
C15_ConsumersSequential ==
    /\ Cardinality(inflight["service2"]) <= 1
    /\ Cardinality(inflight["service3"]) <= 1

\* service2 is at work on one item while another one waits on its queue
C15_Witness ==
    /\ inflight["service2"] # {}
    /\ \E m \in BagToSet(queue1) : Visible(m, "service2")

\* message is the item of request r as service1 builds it from that request
\* alone, stamped when the handler of the request had slept
OwnStep1Item(message, r) ==
    /\ [message EXCEPT !.step1_complete = EmptyTs]
          = PipelineMessage(reqs[r].assigned, <<"Initial data from service1">>,
                            Format(reqs[r].start), EmptyTs, EmptyTs, 1,
                            IF reqs[r].inject THEN "invalid_data" ELSE "")
    /\ Parse(message.step1_complete).ok
    /\ Parse(message.step1_complete).t - reqs[r].start \in Elapsed1

\* message is the item of request r after service2: its own fields, the marker
\* of service2 on data, current_step 2 and a step2_complete of its own processing
OwnStep2Item(message, r) ==
    /\ OwnStep1Item([message EXCEPT !.step2_complete = EmptyTs,
                                     !.data = Tail(@), !.current_step = 1], r)
    /\ message.data[1] = "Processed by service2: "
    /\ message.current_step = 2
    /\ Parse(message.step2_complete).ok
    /\ Parse(message.step2_complete).t
          >= Parse(message.step1_complete).t + Step2Sleep

\* C16: whatever the interleaving of service1, service2 and service3, the
\* start_time, step1_complete, step2_complete, current_step, data, error_type and
\* correlation_id of every item enqueued or forwarded are those of the item's own
\* request, never those of another item.
C16_NoCrossContamination ==
    /\ \A m \in BagToSet(queue1) : OwnStep1Item(Unmarshal(m.body).message, m.req)
    /\ \A m \in BagToSet(queue2) : OwnStep2Item(Unmarshal(m.body).message, m.req)
    /\ (Ran("service1") /\ last.outcome = "accepted") =>
          \A m \in last.sent : OwnStep1Item(Unmarshal(m.body).message, m.req)
    /\ (Ran("service2") /\ last.outcome = "forwarded") =>
          /\ OwnStep1Item(Received, last.msg.req)
          /\ OwnStep2Item(last.message, last.msg.req)
          /\ last.message.step1_complete = Received.step1_complete
          /\ \A m \in last.sent :
                m.req = last.msg.req /\ Unmarshal(m.body).message = last.message

\* service2 has forwarded one item while service1 was handling a request with
\* another correlation id, begun before service2 finished
C16_Witness ==
    /\ Ran("service2")
    /\ last.outcome = "forwarded"
    /\ OwnStep2Item(last.message, last.msg.req)
    /\ \E h \in inflight["service1"] :
          /\ reqs[h.req].assigned # reqs[last.msg.req].assigned
          /\ h.t < Parse(last.message.step2_complete).t

\* C17: on a receive error the consumer loop of service2 and that of service3
\* each log the error, wait a fixed interval, and keep running.
C17_ReceiveErrorRetried ==
    (last.svc \in {"consumeFromStep1", "consumeFromStep2"}) =>
        /\ \E i \in DOMAIN last.ops : last.ops[i].op = "log" /\ last.ops[i].tag = "error"
        /\ last.elapsed > 0
        /\ running = {"service2", "service3"}

\* msg with its trace carrier replaced
WithCarrier(msg, carrier) ==
    [msg EXCEPT !.attrs =
        [k \in (DOMAIN msg.attrs \ {"x-datadog-trace-id"}) \cup DOMAIN carrier |->
            IF k \in DOMAIN carrier THEN carrier[k] ELSE msg.attrs[k]]]

ValidCarrier == Inject(ExternalTrace, TRUE)

BrokenCarriers == {EmptyCarrier, Inject("not-a-trace-id", TRUE)}

ExtractLog(o) == o.name = "Failed to extract trace context, starting new span"

NotExtractLog(o) == ~ExtractLog(o)

\* what a run did to the work item: fields written, calls made, forward, delete
ItemOutcome(r) ==
    [outcome |-> r.outcome, message |-> r.message, correlationID |-> r.correlationID,
     deleted |-> r.deleted, failed |-> r.failed,
     ops |-> SelectSeq(r.ops, NotExtractLog),
     bodies |-> IF r.svc = "service2" THEN {m.body : m \in r.sent} ELSE {}]

SameButSpan(broken, valid) ==
    /\ ItemOutcome(broken) = ItemOutcome(valid)
    /\ (broken.outcome # "malformed") =>
          /\ ~broken.span.child
          /\ broken.span.trace \in FreshTraces
          /\ valid.span.child
          /\ valid.span.trace = ExternalTrace
          /\ Len(SelectSeq(broken.ops, ExtractLog)) = 1

\* every course the calls of a handler that begins now can take
Courses1 ==
    [method : Methods, cid : HeaderCids, inject : InjectHeaders, uuid : FreshUuids,
     trace : FreshTraces, elapsed : Elapsed1, injectOk : BOOLEAN, marshalOk : BOOLEAN,
     sendOk : BOOLEAN]

Courses2 ==
    [uuid : FreshUuids, trace : FreshTraces, elapsed : Elapsed2, injectOk : BOOLEAN,
     marshalOk : BOOLEAN, sendOk : BOOLEAN, deleteOk : BOOLEAN]

Courses3 ==
    [uuid : FreshUuids, trace : FreshTraces, elapsed : Elapsed3, deleteOk : BOOLEAN]

\* C18: for every message a consumer loop at its ReceiveMessage finds on its
\* queue and every course of the transport calls, service2 and service3 treat the message with an empty or
\* corrupt trace carrier exactly as they treat it with a valid carrier (same
\* fields written, same calls, same forward and delete), except that the span is
\* a fresh root span, of a trace of its own, instead of a child and one debug
\* line is logged.
C18_CarrierResilience ==
    /\ inflight["service2"] = {} =>
       \A msg \in BagToSet(queue1), in \in Courses2 :
          LET valid == processStep2Message(WithCarrier(msg, ValidCarrier), in, now)
          IN  \A c \in BrokenCarriers :
                  SameButSpan(processStep2Message(WithCarrier(msg, c), in, now), valid)
    /\ inflight["service3"] = {} =>
       \A msg \in BagToSet(queue2), in \in Courses3 :
          LET valid == processStep3Message(WithCarrier(msg, ValidCarrier), in, now)
          IN  \A c \in BrokenCarriers :
                  SameButSpan(processStep3Message(WithCarrier(msg, c), in, now), valid)
    /\ ((Ran("service2") \/ Ran("service3")) /\ last.outcome # "malformed"
           /\ ~Extract(CarrierOf(last.msg)).ok) =>
          /\ ~last.span.child
          /\ last.span.trace \in {TraceNames[i] : i \in 1..issued.trace}
          /\ \A m \in BagToSet(queue1) \cup BagToSet(queue2) :
                (Extract(CarrierOf(m)).ok /\ m.from # last.svc) =>
                    Extract(CarrierOf(m)).trace # last.span.trace
          /\ Len(SelectSeq(last.ops, ExtractLog)) = 1

\* service2 forwarded an item that came with a corrupt trace carrier
C18_Witness ==
    /\ Ran("service2")
    /\ last.outcome = "forwarded"
    /\ "x-datadog-trace-id" \in DOMAIN last.msg.attrs
    /\ ~Extract(CarrierOf(last.msg)).ok
    /\ ~last.span.child

InjectLog(o) == o.name \in {"Failed to inject trace context, continuing without tracing"}

\* the run logged that tracer.Inject failed
InjectFailed(r) == Len(SelectSeq(r.ops, InjectLog)) > 0

\* the run sent one message, with the correlation-id attribute and no trace entry
SentUntraced(r, correlationID) ==
    /\ Cardinality(r.sent) = 1
    /\ \A m \in r.sent :
          /\ m.body.valid
          /\ "correlation-id" \in DOMAIN m.attrs
          /\ m.attrs["correlation-id"] = correlationID
          /\ "x-datadog-trace-id" \notin DOMAIN m.attrs

\* C19: when tracer.Inject fails and json.Marshal and SendMessage succeed,
\* service1 and service2 still send the work item to the next queue, with the
\* correlation-id attribute; the failure is only logged.  The message SQS has
\* accepted is the one the handler built.
C19_InjectFailureDoesNotAbort ==
    /\ \A in \in Courses1 :
          (MethodAllowed(in.method) /\ ~in.injectOk /\ in.marshalOk /\ in.sendOk) =>
             LET r == sendMessageHandler(in, Len(reqs) + 1, now)
             IN  /\ r.outcome = "accepted"
                 /\ r.response.status = 200
                 /\ InjectFailed(r)
                 /\ SentUntraced(r, r.assigned)
    /\ \A msg \in BagToSet(queue1), in \in Courses2 :
          (~in.injectOk /\ in.marshalOk /\ in.sendOk) =>
             LET r == processStep2Message(msg, in, now)
             IN  r.outcome \notin {"malformed", "short_circuit"} =>
                    /\ r.outcome = "forwarded"
                    /\ InjectFailed(r)
                    /\ SentUntraced(r, r.correlationID)
    /\ (Ran("service1") /\ InjectFailed(last) /\ last.outcome = "accepted") =>
          /\ SentUntraced(last, last.assigned)
          /\ last.enqueued = last.sent
    /\ (Ran("service2") /\ InjectFailed(last) /\ last.outcome = "forwarded") =>
          /\ SentUntraced(last, last.correlationID)
          /\ last.enqueued = last.sent

\* service2 forwarded an item although it could not inject the trace context
C19_Witness ==
    /\ RanOnRequest("service2")
    /\ InjectFailed(last)
    /\ last.outcome = "forwarded"
    /\ SentUntraced(last, last.correlationID)
    /\ last.enqueued = last.sent

\* C20: whenever the SendMessage of service1 has returned without error, the
\* item is the one SQS accepted and the request is answered 200 with the
\* correlation id of that item and the duration of step 1, with or without the
\* inject-error flag, whether or not service2 or service3 got hold of the item
\* before the answer was written; the answer of a request, once written, stays what
\* it is whatever service2 and service3 do with the item afterwards.
C20_EnqueuedMeansSuccess ==
    /\ []((Ran("service1") /\ last.sent # {}) =>
          /\ last.enqueued = last.sent
          /\ last.outcome = "accepted"
          /\ last.response.status = 200
          /\ last.response.correlation_id = last.assigned
          /\ last.response.duration_ms
                = TimingVal(last.ops, "business.pipeline.step1.duration")
          /\ last.response.duration_ms >= Step1Sleep
          /\ \A m \in last.sent : reqs[m.req].status = 200
          /\ \A m \in last.sent :
                Unmarshal(m.body).message.correlation_id = last.response.correlation_id)
    /\ [][\A r \in 1..Len(reqs) :
            reqs[r].status # 0 => reqs'[r].status = reqs[r].status]_vars

\* the item of a request answered with success was short-circuited by service2
C20_Witness ==
    /\ RanOnRequest("service2")
    /\ last.outcome = "short_circuit"
    /\ reqs[last.msg.req].inject
    /\ reqs[last.msg.req].status = 200

Ok(ts) == Parse(ts).ok

\* C21: service3 emits each derived duration exactly when the two timestamps it is
\* computed from both parse (end-to-end: start_time; step 1: start_time and
\* step1_complete; step 2: step1_complete and step2_complete; step 2 to step 3:
\* step2_complete), and it issues the delete whatever the timestamps are.
C21_DerivedMetricsIndependent ==
    (Ran("service3") /\ last.outcome = "terminated") =>
        /\ Has(last.ops, "timing", "business.pipeline.end_to_end.duration")
              <=> Ok(last.message.start_time)
        /\ Has(last.ops, "timing", "business.pipeline.step1.calculated_duration")
              <=> (Ok(last.message.start_time) /\ Ok(last.message.step1_complete))
        /\ Has(last.ops, "timing", "business.pipeline.step2.calculated_duration")
              <=> (Ok(last.message.step1_complete) /\ Ok(last.message.step2_complete))
        /\ Has(last.ops, "timing", "business.pipeline.step2_to_step3.duration")
              <=> Ok(last.message.step2_complete)
        /\ Has(last.ops, "delete", "service-queue-step2")

EndToEndMetrics == {"business.pipeline.end_to_end.duration", "sli.pipeline.duration"}

\* C22: every sample of business.pipeline.end_to_end.duration and of
\* sli.pipeline.duration is emitted by service3 and is the time from start_time
\* to the end of service3's processing.
C22_EndToEndOnlyAtTerminal ==
    (last.svc \in Services) =>
        \A i \in DOMAIN last.ops :
            (last.ops[i].op = "timing" /\ last.ops[i].name \in EndToEndMetrics) =>
                /\ last.svc = "service3"
                /\ last.ops[i].val = now - Parse(last.message.start_time).t

\* C23 as stated: a run of service2 that short-circuits an item does not
\* increment sli.processing.error.
C23_ShortCircuitNotLocalError ==
    (Ran("service2") /\ last.outcome = "short_circuit") =>
        ~Has(last.ops, "incr", "sli.processing.error")

\* C23: a run of service2 that short-circuits an item counts it as a local
\* processing failure: sli.processing.total, sli.processing.error (tagged
\* error_type:inherited_error) and business.pipeline.failed.step2 are each
\* incremented once and sli.processing.success is not; nothing is counted for the
\* item at the terminal boundary, where sli.pipeline.total and
\* sli.pipeline.success always agree.
C23_ShortCircuitCountedLocally ==
    /\ (Ran("service2") /\ last.outcome = "short_circuit") =>
          /\ Times(last.ops, "incr", "sli.processing.error") = 1
          /\ \A i \in DOMAIN last.ops :
                last.ops[i].name = "sli.processing.error" =>
                    last.ops[i].tag = "error_type:inherited_error"
          /\ Times(last.ops, "incr", "sli.processing.total") = 1
          /\ Times(last.ops, "incr", "business.pipeline.failed.step2") = 1
          /\ ~Has(last.ops, "incr", "sli.processing.success")
    /\ Counter("pipeline", "sli.pipeline.total") = Counter("pipeline", "sli.pipeline.success")
    /\ \A r \in 1..Len(reqs) : reqs[r].inject => e2e[r] = 0

C23_Witness ==
    /\ RanOnRequest("service2")
    /\ last.outcome = "short_circuit"
    /\ Counter("service2", "sli.processing.error") = 1
    /\ Counter("pipeline", "sli.pipeline.total") = 0

Answered(ok) == Cardinality({r \in 1..Len(reqs) : (reqs[r].status = 200) = ok})

\* C24: the number of sli.requests.success increments equals the number of
\* /send-message requests answered with success, and the number of
\* sli.requests.error increments the number answered with an error.
C24_RequestSliMatchAnswers ==
    (inflight["service1"] = {}) =>
        /\ Counter("service1", "sli.requests.success") = Answered(TRUE)
        /\ Counter("service1", "sli.requests.error") = Answered(FALSE)

\* C25: every message service1 or service2 sent carries a correlation-id
\* attribute whose value is the correlation_id of its JSON body.
C25_AttributeCopiesBody ==
    \A m \in Produced :
        /\ "correlation-id" \in DOMAIN m.attrs
        /\ m.attrs["correlation-id"] = Unmarshal(m.body).message.correlation_id

\* the item of request r, created without an error, waits on service-queue-step1
Waiting(r) == r <= Len(reqs) /\ ~reqs[r].inject /\ CopiesOn(queue1, r) > 0

\* the item of request r has been placed on service-queue-step2: it is there, or
\* service3 has taken it from there and measured it
Placed(r) == CopiesOn(queue2, r) > 0 \/ e2e[r] > 0

\* C26: when failures do not go on forever and unacknowledged messages are
\* redelivered, a work item without error_type that is on service-queue-step1 is
\* eventually placed on service-queue-step2 and eventually gone from
\* service-queue-step1; it never leaves service-queue-step1 without having been
\* placed on service-queue-step2.
C26_RecoveredByRedelivery ==
    /\ \A r \in 1..MaxRequests : Waiting(r) ~> Placed(r)
    /\ \A r \in 1..MaxRequests : Waiting(r) ~> (CopiesOn(queue1, r) = 0)
    /\ [](\A r \in 1..MaxRequests :
             (Accepted(r) /\ CopiesOn(queue1, r) = 0) => Placed(r))

\* the item is on service-queue-step2 and off service-queue-step1 after a send
\* of service2 had failed
C26_Witness ==
    /\ Counter("service2", "business.pipeline.errors.sqs.send") > 0
    /\ \E r \in 1..Len(reqs) :
          /\ Accepted(r)
          /\ CopiesOn(queue2, r) > 0
          /\ CopiesOn(queue1, r) = 0

FrameFields == {"correlation_id", "start_time", "step1_complete", "error_type"}

SameFrame(a, b) == \A k \in FrameFields : a[k] = b[k]

\* C27: in the item service2 forwards, correlation_id, start_time,
\* step1_complete and error_type are those of the item it received, in the
\* updated message and in the body placed on service-queue-step2.
C27_Step2Frame ==
    (Ran("service2") /\ last.outcome = "forwarded") =>
        /\ SameFrame(last.message, Received)
        /\ last.enqueued = last.sent
        /\ \A m \in last.sent : SameFrame(Unmarshal(m.body).message, Received)

\* service2 forwarded an item whose error_type and unparseable start_time it kept
C27_Witness ==
    /\ Ran("service2")
    /\ last.outcome = "forwarded"
    /\ Received.error_type = "timeout"
    /\ Received.start_time = BadTs
    /\ \A m \in last.sent : SameFrame(Unmarshal(m.body).message, Received)

Step2ErrorCounters ==
    {"sli.processing.error", "business.pipeline.errors.sqs.send",
     "business.pipeline.errors.json.marshal", "business.pipeline.errors.step2",
     "business.pipeline.failed.step2"}

\* C28: a run of service2 in which json.Marshal or the SendMessage to
\* service-queue-step2 failed increments an error counter.
C28_ForwardFailureCounted ==
    (Ran("service2") /\ last.outcome \in {"marshal_failed", "send_failed"}) =>
        \E i \in DOMAIN last.ops :
            last.ops[i].op = "incr" /\ last.ops[i].name \in Step2ErrorCounters

\* position of the first call of ops that belongs to the short-circuit branch
FirstShortCircuitOp(ops) ==
    CHOOSE i \in DOMAIN ops :
        /\ ops[i].name = "business.pipeline.errors.step2"
        /\ \A j \in 1..(i - 1) : ops[j].name # "business.pipeline.errors.step2"

\* C29: in a run of service2 that short-circuits an item, nothing is counted or
\* measured before the error_type check: the calls that precede the first call of
\* the short-circuit branch are neither counter increments nor timings, and the
\* item is not modified.
C29_CheckBeforeAnyEmission ==
    (Ran("service2") /\ last.outcome = "short_circuit") =>
        /\ \A j \in 1..(FirstShortCircuitOp(last.ops) - 1) :
              last.ops[j].op \notin {"incr", "timing"}
        /\ last.message = Received

DeleteAt(ops) == CHOOSE i \in DOMAIN ops : ops[i].op = "delete"

\* C30: for every well-formed message service3 receives, it emits its metrics
\* and then issues exactly one DeleteMessage, on service-queue-step2; every
\* counter and timing of the run precedes the delete, and the run sends nothing.
C30_MetricsThenOneDelete ==
    (Ran("service3") /\ last.msg.body.valid) =>
        /\ last.outcome = "terminated"
        /\ Times(last.ops, "delete", "service-queue-step2") = 1
        /\ \A i \in DOMAIN last.ops :
              /\ last.ops[i].op = "delete" => last.ops[i].name = "service-queue-step2"
              /\ last.ops[i].op # "send"
              /\ last.ops[i].op \in {"incr", "timing"} => i < DeleteAt(last.ops)
        /\ Has(last.ops, "incr", "sli.processing.total")
        /\ Has(last.ops, "incr", "business.pipeline.completed")
        /\ last.deleted
        /\ "delete" \in last.executed
        /\ "sent" \notin DOMAIN last
        /\ last.enqueued = {}

C30_Witness ==
    /\ RanOnRequest("service3")
    /\ last.outcome = "terminated"
    /\ last.deleted
    /\ Has(last.ops, "timing", "business.pipeline.end_to_end.duration")
    /\ CopiesOn(queue2, last.msg.req) = 0

SendAt(ops) == CHOOSE i \in DOMAIN ops : ops[i].op = "send"

\* C31: service2 deletes a message from service-queue-step1 only on the
\* malformed path, on the short-circuit path, or after its SendMessage to
\* service-queue-step2 succeeded (SQS has accepted the item); a work item created without error and accepted
\* at ingress is on one of the two queues at least until service3 has processed
\* it.
C31_DeleteOnlyAfterSend ==
    /\ (Ran("service2") /\ (last.deleted \/ "delete" \in last.executed
                                \/ Has(last.ops, "delete", "service-queue-step1"))) =>
          /\ last.outcome \in {"malformed", "short_circuit", "forwarded"}
          /\ last.outcome = "forwarded" =>
                /\ Cardinality(last.sent) = 1
                /\ last.enqueued = last.sent
                /\ \A m \in last.sent : m.req = last.msg.req
                /\ SendAt(last.ops) < DeleteAt(last.ops)
    /\ \A h \in inflight["service2"] :
          "delete" \in h.executed =>
              \/ "send" \in h.executed
              \/ RunOf("service2", h).outcome \in {"malformed", "short_circuit"}
    /\ \A r \in 1..Len(reqs) :
          (Accepted(r) /\ e2e[r] = 0) => CopiesOn(queue1, r) + CopiesOn(queue2, r) >= 1

\* the item has been moved: deleted from service-queue-step1, on
\* service-queue-step2, not yet received by service3
C31_Witness ==
    /\ RanOnRequest("service2")
    /\ last.outcome = "forwarded"
    /\ last.deleted
    /\ CopiesOn(queue1, last.msg.req) = 0
    /\ CopiesOn(queue2, last.msg.req) = 1
    /\ e2e[last.msg.req] = 0

\* the latest run measured its step and emitted the SLI of the step
Measured(svc) ==
    /\ Ran(svc)
    /\ Has(last.ops, "timing", IF svc = "service1" THEN "sli.response_time" ELSE "sli.processing_time")

StepDuration(svc) ==
    TimingVal(last.ops, IF svc = "service1" THEN "sli.response_time" ELSE "sli.processing_time")

\* C32 as stated: each bucket counter is incremented exactly when the measured
\* duration is below its threshold, not when it equals the threshold.
C32_BucketsStrictlyBelow ==
    /\ Measured("service1") =>
          (Has(last.ops, "incr", "sli.latency.under_50ms") <=> StepDuration("service1") < Under50)
    /\ Measured("service2") =>
          (Has(last.ops, "incr", "sli.latency.under_50ms") <=> StepDuration("service2") < Under50)
    /\ Measured("service3") =>
          (Has(last.ops, "incr", "sli.latency.under_60ms") <=> StepDuration("service3") < Under60)
    /\ (Ran("service3") /\ Has(last.ops, "timing", "sli.pipeline.duration")) =>
          /\ Has(last.ops, "incr", "sli.pipeline.under_300ms")
                <=> TimingVal(last.ops, "sli.pipeline.duration") < Under300
          /\ Has(last.ops, "incr", "sli.pipeline.under_1s")
                <=> TimingVal(last.ops, "sli.pipeline.duration") < Under1s

\* C32: each latency bucket counter (service1 and service2: 50 ms, service3:
\* 60 ms, end-to-end: 300 ms and 1 s) is incremented exactly when the measured
\* duration is at most its threshold: a duration equal to the threshold counts.
\* The end-to-end duration runs from start_time to the instant service3 measures
\* it, after its own processing and not later than the present instant.
C32_BucketsAtMost ==
    /\ Measured("service1") =>
          (Has(last.ops, "incr", "sli.latency.under_50ms") <=> StepDuration("service1") <= Under50)
    /\ Measured("service2") =>
          (Has(last.ops, "incr", "sli.latency.under_50ms") <=> StepDuration("service2") <= Under50)
    /\ Measured("service3") =>
          (Has(last.ops, "incr", "sli.latency.under_60ms") <=> StepDuration("service3") <= Under60)
    /\ (Ran("service3") /\ Has(last.ops, "timing", "sli.pipeline.duration")) =>
          /\ Has(last.ops, "incr", "sli.pipeline.under_300ms")
                <=> TimingVal(last.ops, "sli.pipeline.duration") <= Under300
          /\ Has(last.ops, "incr", "sli.pipeline.under_1s")
                <=> TimingVal(last.ops, "sli.pipeline.duration") <= Under1s
          /\ TimingVal(last.ops, "sli.pipeline.duration")
                <= now - Parse(last.message.start_time).t
          /\ Parse(last.message.step2_complete).ok =>
                TimingVal(last.ops, "sli.pipeline.duration")
                    >= Parse(last.message.step2_complete).t
                          - Parse(last.message.start_time).t + StepDuration("service3")

\* service3 took exactly 60 ms and counted the run in under_60ms
C32_Witness ==
    /\ Measured("service3")
    /\ StepDuration("service3") = Under60
    /\ Has(last.ops, "incr", "sli.latency.under_60ms")


\* the queue a consumer receives from
QueueOf(svc) == IF svc = "service2" THEN "service-queue-step1" ELSE "service-queue-step2"

\* the messages a handler run put on the next queue
SentBy(r) == IF r.svc = "service2" THEN r.sent ELSE {}

\* the five ways a consumer can leave a message, told from what the handler did
MalformedDrop(r) ==
    /\ r.outcome = "malformed"
    /\ Has(r.ops, "delete", QueueOf(r.svc))
    /\ SentBy(r) = {}

ShortCircuit(r) ==
    /\ r.outcome = "short_circuit"
    /\ Has(r.ops, "delete", QueueOf(r.svc))
    /\ SentBy(r) = {}

ForwardedAndDeleted(r) ==
    /\ r.outcome = "forwarded"
    /\ Has(r.ops, "delete", QueueOf(r.svc))
    /\ SentBy(r) # {}

LeftForRedelivery(r) ==
    /\ r.outcome \in {"malformed", "marshal_failed", "send_failed"}
    /\ ~Has(r.ops, "delete", QueueOf(r.svc))
    /\ ~r.deleted
    /\ SentBy(r) = {}

TerminatedAndDeleted(r) ==
    /\ r.outcome = "terminated"
    /\ Has(r.ops, "delete", QueueOf(r.svc))
    /\ SentBy(r) = {}

OutcomesOf(r) ==
    {o \in {"malformed-drop", "short-circuit", "forwarded-and-deleted",
            "left-for-redelivery", "terminated-and-deleted"} :
        \/ o = "malformed-drop" /\ MalformedDrop(r)
        \/ o = "short-circuit" /\ ShortCircuit(r)
        \/ o = "forwarded-and-deleted" /\ ForwardedAndDeleted(r)
        \/ o = "left-for-redelivery" /\ LeftForRedelivery(r)
        \/ o = "terminated-and-deleted" /\ TerminatedAndDeleted(r)}

\* C33: while service2 or service3 is at work on a message it receives no other
\* one and nothing stops its loop: the handler goes from one call to the next;
\* the processing ends, whatever calls fail, and when the handler returns it has
\* brought that message to exactly one of the outcomes malformed-drop,
\* short-circuit, forwarded-and-deleted, left-for-redelivery and
\* terminated-and-deleted (deleted: DeleteMessage issued).
C33_RunsToOneOutcome ==
    /\ [][\A svc \in {"service2", "service3"} :
            inflight[svc] # {} =>
                /\ \A g \in inflight'[svc] :
                      \E h \in inflight[svc] : g.msg = h.msg /\ g.t = h.t /\ g.pc >= h.pc
                /\ svc \in running'
                /\ inflight'[svc] # {} => last'.svc # svc
                /\ inflight'[svc] = {} =>
                      /\ last'.svc = svc
                      /\ \E h \in inflight[svc] : h.msg = last'.msg
                      /\ Cardinality(OutcomesOf(last')) = 1]_vars
    /\ \A svc \in {"service2", "service3"} :
            (inflight[svc] # {}) ~> (inflight[svc] = {})

\* service2 left a message for redelivery when its send failed, has received it
\* again and has sent it
C33_Witness ==
    /\ Counter("service2", "business.pipeline.errors.sqs.send") > 0
    /\ queue2 # EmptyBag
    /\ \E h \in inflight["service2"] : h.msg \in BagToSet(queue1) /\ h.pc > 0

\* the increments of one handler run are balanced for the counters prefix.total,
\* prefix.success and prefix.error
BalancedRun(ops, prefix) ==
    Times(ops, "incr", prefix \o ".total") =
        Times(ops, "incr", prefix \o ".success") + Times(ops, "incr", prefix \o ".error")

BalancedCounters(svc, prefix) ==
    Counter(svc, prefix \o ".total") =
        Counter(svc, prefix \o ".success") + Counter(svc, prefix \o ".error")

\* C34: after every completed /send-message request sli.requests.total =
\* sli.requests.success + sli.requests.error at service1, and after every message
\* service2 has handled sli.processing.total = sli.processing.success +
\* sli.processing.error, on every path; when the send fails the handler has
\* incremented the total twice.  The requests to the health endpoints, which
\* count a total and a success each, keep the sums equal at every service.
C34_CountersBalanced ==
    /\ \A svc \in Services : BalancedCounters(svc, "sli.requests")
    /\ BalancedCounters("service2", "sli.processing")
    /\ last.svc = "homeHandler" =>
          /\ BalancedRun(last.ops, "sli.requests")
          /\ Times(last.ops, "incr", "sli.requests.total") = 1
    /\ Ran("service1") =>
          /\ BalancedRun(last.ops, "sli.requests")
          /\ Times(last.ops, "incr", "sli.requests.total") =
                 IF last.outcome = "rejected" THEN 0
                 ELSE IF last.outcome = "failed" THEN 2 ELSE 1
    /\ Ran("service2") =>
          /\ BalancedRun(last.ops, "sli.processing")
          /\ Times(last.ops, "incr", "sli.processing.total") =
                 IF last.outcome = "malformed" THEN 0
                 ELSE IF last.outcome = "send_failed" THEN 2 ELSE 1

\* service2 counted a success, then the send failed: total 2, success 1, error 1
C34_Witness ==
    /\ Ran("service2")
    /\ last.outcome = "send_failed"
    /\ Counter("service2", "sli.processing.total") = 2
    /\ Counter("service2", "sli.processing.success") = 1
    /\ Counter("service2", "sli.processing.error") = 1

\* the value of counter name, whatever service tag it was emitted with
Total(name) ==
    Counter("service1", name) + Counter("service2", name) + Counter("service3", name)
        + Counter("pipeline", name)

\* C35: in every reachable state sli.pipeline.success equals sli.pipeline.total:
\* only a run of service3 increments either, it increments both or none, a run of
\* service2 that short-circuits an item increments neither, and no item created
\* with the inject-error flag is ever counted.
C35_PipelineSuccessIsTotal ==
    /\ Total("sli.pipeline.success") = Total("sli.pipeline.total")
    /\ last.svc \in Services \cup {"consumeFromStep1", "consumeFromStep2"} =>
          /\ Times(last.ops, "incr", "sli.pipeline.success") =
                 Times(last.ops, "incr", "sli.pipeline.total")
          /\ ~Ran("service3") =>
                 Times(last.ops, "incr", "sli.pipeline.total") = 0
    /\ (RanOnRequest("service3") /\ Has(last.ops, "incr", "sli.pipeline.total")) =>
          ~reqs[last.msg.req].inject

\* service3 has ended an item more than a second after its start, and counted it
\* as a pipeline success
C35_Witness ==
    /\ Ran("service3")
    /\ Has(last.ops, "timing", "sli.pipeline.duration")
    /\ TimingVal(last.ops, "sli.pipeline.duration") > Under1s
    /\ Total("sli.pipeline.success") = 1
    /\ Total("sli.pipeline.total") = 1

\* m, as a consumer decodes it, is a complete stage-1 item
Step1Complete(m) ==
    LET u == Unmarshal(m.body)
    IN  /\ u.ok
        /\ u.message.correlation_id # ""
        /\ u.message.start_time # EmptyTs
        /\ u.message.step1_complete # EmptyTs
        /\ u.message.current_step = 1

\* C36: every message service1 places on service-queue-step1 has a non-empty
\* correlation_id, start_time and step1_complete and current_step = 1, with or
\* without the inject-error flag; a request with the flag is enqueued like any
\* other, its item carrying error_type "invalid_data".
C36_Step1ItemComplete ==
    /\ \A m \in BagToSet(queue1) : m.from = "service1" => Step1Complete(m)
    /\ Ran("service1") =>
          /\ \A m \in last.sent \cup last.enqueued :
                /\ Step1Complete(m)
                /\ (Unmarshal(m.body).message.error_type = "invalid_data") = last.inject
          /\ (last.outcome = "accepted") = (last.sent # {})
          /\ last.sent \subseteq last.enqueued
          /\ (last.outcome = "failed") = (Has(last.ops, "log", "Failed to send message to Service2"))

\* a request with the inject-error flag has been enqueued, stamped
C36_Witness ==
    /\ Ran("service1")
    /\ last.inject
    /\ \E m \in last.sent \cap last.enqueued :
          /\ m \in BagToSet(queue1)
          /\ Unmarshal(m.body).message.error_type = "invalid_data"
          /\ Unmarshal(m.body).message.step1_complete # EmptyTs

\* out, as service3 decodes it, is what service2 makes of the message msg
Step2Complete(out, msg) ==
    LET u == Unmarshal(out.body)
        received == Unmarshal(msg.body).message
    IN  /\ u.ok
        /\ u.message.error_type # "invalid_data"
        /\ u.message.step2_complete # EmptyTs
        /\ u.message.current_step = 2
        /\ u.message.data = <<"Processed by service2: ">> \o received.data

\* C37: every message service2 places on service-queue-step2 has an error_type
\* other than "invalid_data", a non-empty step2_complete, current_step = 2 and the
\* received data behind "Processed by service2: "; a message on
\* service-queue-step2 that descends from an item of service1 carries no
\* error_type at all.
C37_Step2ItemComplete ==
    /\ Ran("service2") =>
          \A out \in last.sent \cup last.enqueued : Step2Complete(out, last.msg)
    /\ \A m \in BagToSet(queue2) :
          m.from = "service2" =>
              /\ Unmarshal(m.body).message.error_type # "invalid_data"
              /\ Unmarshal(m.body).message.step2_complete # EmptyTs
              /\ Unmarshal(m.body).message.current_step = 2
              /\ m.req > 0 => Unmarshal(m.body).message.error_type = ""

\* service2 has forwarded the item of a request
C37_Witness ==
    /\ RanOnRequest("service2")
    /\ last.outcome = "forwarded"
    /\ \E out \in last.sent \cap last.enqueued :
          /\ out \in BagToSet(queue2)
          /\ Unmarshal(out.body).message.data =
                 <<"Processed by service2: ", "Initial data from service1">>

\* C38: a request to /send-message with a method other than POST, and no other
\* request, is rejected; the rejection answers 405 and has no effect: no work item
\* is created, nothing is sent to service-queue-step1 and no metric is emitted.
C38_NonPostRejected ==
    [][(last'.svc = "service1" /\ last' # last) =>
          /\ (last'.method # "POST") = (last'.outcome = "rejected")
          /\ last'.outcome = "rejected" =>
                /\ last'.response.status = 405
                /\ last'.ops = <<>>
                /\ last'.sent = {}
                /\ last'.enqueued = {}
                /\ UNCHANGED <<queue1, queue2, metrics, reqs, e2e>>]_vars

\* a GET has been rejected while a message waits on service-queue-step1
C38_Witness ==
    /\ Ran("service1")
    /\ last.method = "GET"
    /\ last.outcome = "rejected"
    /\ refused = 1
    /\ queue1 # EmptyBag

====
